---- MODULE Spec2Model ----
(***************************************************************************)
(* SuperStyleSheet: lexer -> parser -> AST -> compiler (pretty / minified). *)
(* Source text, token values and emitted CSS are strings; a character is a  *)
(* string of length one.  Indices into text and token lists are zero-based, *)
(* as in the source.  A method that changes its object is an operator from  *)
(* the object before the call to the object after it.                       *)
(***************************************************************************)
EXTENDS Integers, Sequences, FiniteSets, TLC

VARIABLES
    text,         \* the source handed to Lexer(text)
    pc,           \* how far the pipeline of __main__ / the tests has come
    tokens,       \* Lexer.tokens once the constructor has returned
    root,         \* the RootNode Parser.parse() returned
    mixin_table,  \* Compiler._mixin_table
    alias_table,  \* Compiler._alias_table
    calls,        \* number of compile_css calls made on the Compiler
    first,        \* per mode: what the first compile_css call of that mode gave
    last          \* per mode: what the latest compile_css call of that mode gave

vars == <<text, pc, tokens, root, mixin_table, alias_table, calls, first, last>>

-----------------------------------------------------------------------------
(* Characters and strings                                                   *)

\* Python's None, for a character, a token, a node or a result not there.
NoChar == "<None>"
None == [kind |-> "None"]
NoValue == "<None>"
NoPos == -1

\* the only member of a set of one: Only({e(x) : x \in {v}}) is e(v)
Only(S) == CHOOSE v \in S : TRUE

Char(s, i) == IF 0 <= i /\ i < Len(s) THEN SubSeq(s, i + 1, i + 1) ELSE NoChar

\* The characters of code points 32 to 126 in order.  The backslash (92) and the
\* backtick (96) are in no text here; a tab and a newline hold their places.
Ascii ==
    " !\"#$%&'()*+,-./0123456789:;<=>?@ABCDEFGHIJKLMNOPQRSTUVWXYZ[\t]^_\nabcdefghijklmnopqrstuvwxyz{|}~"

\* The code point of a character: str comparison in sorted() goes by it.
Code(c) ==
    IF c = "\t" THEN 9
    ELSE IF c = "\n" THEN 10
    ELSE 32 + (CHOOSE i \in 0..(Len(Ascii) - 1) : Char(Ascii, i) = c)

UPPER == {Char(Ascii, n - 32) : n \in 65..90}
LOWER == {Char(Ascii, n - 32) : n \in 97..122}
DIGITS == {Char(Ascii, n - 32) : n \in 48..57}

isspace(c) == c \in {" ", "\t", "\n"}
isalpha(c) == c \in UPPER \cup LOWER
isalnum(c) == c \in UPPER \cup LOWER \cup DIGITS

\* the least j in i..Len(s) with j = Len(s) or not pred(s[j]): where a loop
\* "while current_char is not None and pred(current_char): advance" started at
\* index i comes to rest
RunEnd(s, i, pred(_)) ==
    CHOOSE j \in i..Len(s) :
        /\ j = Len(s) \/ ~pred(Char(s, j))
        /\ \A k \in i..(j - 1) : pred(Char(s, k))

\* the greatest j in 0..Len(s) with j = 0 or not pred(s[j - 1])
RunStart(s, pred(_)) ==
    CHOOSE j \in 0..Len(s) :
        /\ j = 0 \/ ~pred(Char(s, j - 1))
        /\ \A k \in j..(Len(s) - 1) : pred(Char(s, k))

\* str.lower()
LowerChar(c) == IF c \in UPPER THEN Char(Ascii, Code(c) + 32 - 32) ELSE c

RECURSIVE lower(_)
lower(s) ==
    IF Len(s) = 0 THEN ""
    ELSE IF Len(s) = 1 THEN LowerChar(s)
    ELSE lower(SubSeq(s, 1, Len(s) \div 2)) \o lower(SubSeq(s, Len(s) \div 2 + 1, Len(s)))

\* str.strip(): whitespace off both ends
lstrip(s) == SubSeq(s, RunEnd(s, 0, isspace) + 1, Len(s))
rstrip(s) == SubSeq(s, 1, RunStart(s, isspace))
strip(s) == lstrip(rstrip(s))

\* str.strip(chars) for one character
rstrip_char(s, c) == SubSeq(s, 1, RunStart(s, LAMBDA x : x = c))
lstrip_char(s, c) == SubSeq(s, RunEnd(s, 0, LAMBDA x : x = c) + 1, Len(s))
strip_char(s, c) == lstrip_char(rstrip_char(s, c), c)

\* the first index at which a and b differ, their common length if there is none
FirstDifference(a, b) ==
    CHOOSE i \in 0..Len(a) :
        /\ i = Len(a) \/ i >= Len(b) \/ Char(a, i) # Char(b, i)
        /\ \A j \in 0..(i - 1) : j < Len(b) /\ Char(a, j) = Char(b, j)

\* a < b for str: the first differing code point decides, a proper prefix is smaller
str_less_at(a, b, k) ==
    IF k >= Len(a) THEN Len(a) < Len(b)
    ELSE IF k >= Len(b) THEN FALSE
    ELSE Code(Char(a, k)) < Code(Char(b, k))

str_less(a, b) == str_less_at(a, b, FirstDifference(a, b))

\* sorted(list of str)
RECURSIVE insert_sorted(_, _)
insert_sorted(list, s) ==
    IF list = <<>> THEN <<s>>
    ELSE IF str_less(s, Head(list)) THEN <<s>> \o list
    ELSE <<Head(list)>> \o insert_sorted(Tail(list), s)

\* the list as it is, not sorted
sorted_as_given(list) == list

RECURSIVE sorted(_)
sorted(list) ==
    IF list = <<>> THEN <<>>
    ELSE insert_sorted(sorted(SubSeq(list, 1, Len(list) - 1)), list[Len(list)])

\* sep.join(list)
RECURSIVE join(_, _)
join(sep, list) ==
    IF list = <<>> THEN ""
    ELSE IF Len(list) = 1 THEN list[1]
    ELSE list[1] \o sep \o join(sep, Tail(list))

-----------------------------------------------------------------------------
(* Tokens (lexer.py)                                                        *)

STYLE_BEGIN == {"HTML_ELEMENT", "CLASS_PREFIX", "ID_PREFIX", "STAR"}
COMBINATORS == {"BEFORE", "AFTER", "CHILD"}
ATTRIBUTE_OPERATORS ==
    {"ATTR_EQUALS", "ATTR_CONTAINS", "ATTR_CONTAINS_WORD", "ATTR_STARTS_WITH_WORD",
     "ATTR_ENDS_WITH", "ATTR_STARTS_WITH"}
IDENTIFIERS == {"IDENTIFIER", "CSS_PROPERTY", "HTML_ELEMENT"}

\* the keyword table: value -> TokenType
KEYWORDS == [using |-> "USING", mixin |-> "MIXIN", alias |-> "ALIAS", as |-> "AS"]

\* The vocabulary tables the package loads from its resource data: the part of
\* them the programs below use.
ELEMENTS == {"div", "p", "a", "h1", "h2", "h3", "img", "span"}
PROPERTIES == {"color", "margin", "border", "font-weight"}

Token(type_, value, line, column) ==
    [type |-> type_, value |-> value, line |-> line, column |-> column]

is_not_eof(token) == token.type # "EOF"

is_identifier_start(c) == isalpha(c) \/ c \in {"_", "-"}
is_identifier(c) == isalnum(c) \/ c \in {"_", "-"}
is_string_start(c) == c \in {"\"", "'"}

-----------------------------------------------------------------------------
(* Lexer (lexer.py)                                                         *)

\* Lexer.__init__ up to the call of _parse_tokens.  failed: a SyntaxError left
\* the constructor.
Lexer_init(text_, keep_eof_) ==
    [text |-> text_, index |-> 0, line |-> 0, column |-> 0, keep_eof |-> keep_eof_,
     tokens |-> <<>>, failed |-> FALSE]

current_char(self) == Char(self.text, self.index)
next_char(self) == Char(self.text, self.index + 1)

last_token(self) ==
    IF Len(self.tokens) - 1 >= 0 THEN self.tokens[Len(self.tokens)] ELSE None

\* _advance(): a newline passed starts a line at column 0; the column is then
\* stepped unless the text is used up
Lexer_advance(self) ==
    [self EXCEPT
        !.line = IF current_char(self) = "\n" THEN @ + 1 ELSE @,
        !.column = (IF current_char(self) = "\n" THEN 0 ELSE @)
                       + (IF self.index + 1 < Len(self.text) THEN 1 ELSE 0),
        !.index = @ + 1]

\* self.tokens.append(Token(type_, value, self.line, self.column))
Lexer_append(self, type_, value) ==
    [self EXCEPT !.tokens = Append(@, Token(type_, value, self.line, self.column))]

\* _advance() n times over
RECURSIVE Lexer_advance_times(_, _)
Lexer_advance_times(self, n) ==
    IF n <= 0 THEN self
    ELSE IF n = 1 THEN Lexer_advance(self)
    ELSE Only({Lexer_advance_times(half, n - n \div 2) :
                   half \in {Lexer_advance_times(self, n \div 2)}})

\* _skip_space
Lexer_skip_space(self) ==
    Lexer_advance_times(
        IF Len(self.tokens) > 0 THEN Lexer_append(self, "SPACE", " ") ELSE self,
        RunEnd(self.text, self.index, isspace) - self.index)

\* the token _make_identifier returns for the characters it has read
Lexer_identifier_token(value, line, column) ==
    IF value \in ELEMENTS THEN Token("HTML_ELEMENT", lower(value), line, column)
    ELSE IF value \in PROPERTIES THEN Token("CSS_PROPERTY", lower(value), line, column)
    ELSE IF value \in DOMAIN KEYWORDS THEN Token(KEYWORDS[value], value, line, column)
    ELSE Token("IDENTIFIER", value, line, column)

\* _make_identifier when its loop ends at index end, and the append of the token
\* it returns: the token carries the position of its first character
Lexer_identifier_to(self, end) ==
    [Lexer_advance_times(self, end - self.index) EXCEPT
        !.tokens = Append(@, Lexer_identifier_token(SubSeq(self.text, self.index + 1, end),
                                                    self.line, self.column))]

\* self.tokens.append(self._make_identifier())
Lexer_make_identifier(self) ==
    Lexer_identifier_to(self, RunEnd(self.text, self.index, is_identifier))

\* _make_string with the end of the text taken for the closing quote: no
\* SyntaxError
Lexer_string_to_lenient(self, end) ==
    Lexer_append(Lexer_advance_times(self, end + 1 - self.index), "STRING",
                 strip_char(SubSeq(self.text, self.index + 1, end), current_char(self)))

\* _make_string when its loop ends at index end, and the append of the token it
\* returns.  The text used up before the closing quote: SyntaxError.  The token
\* carries the position after the closing quote.
Lexer_string_to(self, end) ==
    IF end >= Len(self.text)
    THEN [Lexer_advance_times(self, end - self.index) EXCEPT !.failed = TRUE]
    ELSE Lexer_append(Lexer_advance_times(self, end + 1 - self.index), "STRING",
                      strip_char(SubSeq(self.text, self.index + 1, end), current_char(self)))

\* self.tokens.append(self._make_string())
Lexer_make_string(self) ==
    Lexer_string_to(self, RunEnd(self.text, self.index + 1,
                                 LAMBDA c : c # current_char(self)))

\* the value read with the index left where the loop stopped: the closing
\* _advance() of the pass then steps over the ';' or '}' that ended the value
Lexer_css_property_value_to_past_end(self, end) ==
    Lexer_append(Lexer_advance_times(self, end - self.index),
                 "CSS_PROPERTY_VALUE", strip(SubSeq(self.text, self.index + 1, end)))

\* _make_css_property_value when its loop ends at index end, and the append of the
\* token it returns: the index is stepped back by one, line and column are not
Lexer_css_property_value_to(self, end) ==
    Lexer_append([Lexer_advance_times(self, end - self.index) EXCEPT !.index = @ - 1],
                 "CSS_PROPERTY_VALUE", strip(SubSeq(self.text, self.index + 1, end)))

\* self.tokens.append(self._make_css_property_value())
Lexer_make_css_property_value(self) ==
    Lexer_css_property_value_to(
        self, RunEnd(self.text, self.index, LAMBDA c : c \notin {";", "}", "\n"}))

\* the single-character tokens of _parse_next_token, but ':'
SingleCharType(c) ==
    CASE c = "," -> "COMMA"
      [] c = "." -> "CLASS_PREFIX"
      [] c = "#" -> "ID_PREFIX"
      [] c = "*" -> "STAR"
      [] c = "+" -> "AFTER"
      [] c = "~" -> "BEFORE"
      [] c = ">" -> "CHILD"
      [] c = "=" -> "ATTR_EQUALS"
      [] c = ";" -> "LINE_END"
      [] c = "(" -> "PAREN_L"
      [] c = ")" -> "PAREN_R"
      [] c = "{" -> "CURLY_L"
      [] c = "}" -> "CURLY_R"
      [] c = "[" -> "SQUARE_L"
      [] c = "]" -> "SQUARE_R"
      [] OTHER -> "<none>"

\* the two-character tokens of _parse_next_token
DoubleCharType(c, n) ==
    CASE c = "~" /\ n = "=" -> "ATTR_CONTAINS_WORD"
      [] c = "*" /\ n = "=" -> "ATTR_CONTAINS"
      [] c = "|" /\ n = "=" -> "ATTR_STARTS_WITH_WORD"
      [] c = "^" /\ n = "=" -> "ATTR_STARTS_WITH"
      [] c = "$" /\ n = "=" -> "ATTR_ENDS_WITH"
      [] c = ":" /\ n = ":" -> "PSEUDO_ELEMENT"
      [] OTHER -> "<none>"

\* the ':' branch looking back past a SPACE token for the CSS_PROPERTY
Lexer_colon_past_space(self) ==
    IF \/ last_token(self) # None /\ last_token(self).type = "CSS_PROPERTY"
       \/ /\ Len(self.tokens) >= 2
          /\ last_token(self).type = "SPACE"
          /\ self.tokens[Len(self.tokens) - 1].type = "CSS_PROPERTY"
    THEN Lexer_make_css_property_value(Lexer_advance(Lexer_append(self, "SINGLE_COLON", ":")))
    ELSE Lexer_append(self, "SINGLE_COLON", ":")

\* the ':' branch of _parse_next_token: after a CSS_PROPERTY the rest of the
\* declaration is read as its value
Lexer_colon(self) ==
    IF last_token(self) # None /\ last_token(self).type = "CSS_PROPERTY"
    THEN Lexer_make_css_property_value(Lexer_advance(Lexer_append(self, "SINGLE_COLON", ":")))
    ELSE Lexer_append(self, "SINGLE_COLON", ":")

\* the if / elif chain of a pass that ends in the closing self._advance()
Lexer_char_token(self, c, n) ==
    IF DoubleCharType(c, n) # "<none>"
    THEN Lexer_advance(Lexer_append(self, DoubleCharType(c, n), c \o n))
    ELSE IF c = ":" THEN Lexer_colon(self)
    ELSE IF SingleCharType(c) # "<none>" THEN Lexer_append(self, SingleCharType(c), c)
    ELSE self

\* one pass of the while loop of _parse_next_token (nothing once the text is
\* used up or the SyntaxError was raised)
Lexer_next_token_step(self) ==
    IF self.failed \/ current_char(self) = NoChar THEN self
    ELSE IF isspace(current_char(self)) THEN Lexer_skip_space(self)
    ELSE IF is_identifier_start(current_char(self)) THEN Lexer_make_identifier(self)
    ELSE IF is_string_start(current_char(self)) THEN Lexer_make_string(self)
    ELSE Lexer_advance(Lexer_char_token(self, current_char(self), next_char(self)))

\* n passes of the while loop
RECURSIVE Lexer_next_token_steps(_, _)
Lexer_next_token_steps(self, n) ==
    IF n <= 0 THEN self
    ELSE IF n = 1 THEN Lexer_next_token_step(self)
    ELSE Only({Lexer_next_token_steps(half, n - n \div 2) :
                   half \in {Lexer_next_token_steps(self, n \div 2)}})

\* the EOF token that ends _parse_next_token, unless the SyntaxError ended it
Lexer_append_eof(self) ==
    IF self.failed THEN self
    ELSE [self EXCEPT !.tokens = Append(@, Token("EOF", NoValue, NoPos, NoPos))]

\* _parse_next_token: the loop runs until the text is used up (every pass takes
\* at least one character, so Len(text) - index passes do), then EOF is appended
Lexer_parse_next_token(self) ==
    Lexer_append_eof(Lexer_next_token_steps(self, Len(self.text) - self.index))

\* the scanning loop of _parse_tokens, the call before the loop being the pass
\* with entered = FALSE: the unfiltered token list
RECURSIVE Lexer_scan_loop(_, _)
Lexer_scan_loop(self, entered) ==
    IF ~entered \/ (~self.failed /\ Len(self.tokens) > 0
                        /\ is_not_eof(self.tokens[Len(self.tokens)]))
    THEN Lexer_scan_loop(Lexer_parse_next_token(self), TRUE)
    ELSE self

Lexer_scan(self) == Lexer_scan_loop(self, FALSE)

SPACE_LEFT == {"HTML_ELEMENT", "IDENTIFIER", "STAR", "SQUARE_R"}
SPACE_RIGHT == {"CLASS_PREFIX", "ID_PREFIX", "HTML_ELEMENT", "STAR"}

\* the filter with the test of the right neighbour left out
Lexer_keeps_left_only(raw, i, keep_eof_) ==
    IF raw[i + 1].type = "SPACE"
    THEN 0 < i /\ raw[i].type \in SPACE_LEFT
    ELSE keep_eof_ \/ raw[i + 1].type # "EOF"

\* the filter with the EOF test left out: EOF is kept whatever keep_eof is
Lexer_keeps_eof_always(raw, i, keep_eof_) ==
    IF raw[i + 1].type = "SPACE"
    THEN /\ 0 < i
         /\ i < Len(raw)
         /\ raw[i].type \in SPACE_LEFT
         /\ raw[i + 2].type \in SPACE_RIGHT
    ELSE TRUE

\* whether the filter of _parse_tokens keeps raw[i] (i zero-based)
Lexer_keeps(raw, i, keep_eof_) ==
    IF raw[i + 1].type = "SPACE"
    THEN /\ 0 < i
         /\ i < Len(raw)
         /\ raw[i].type \in SPACE_LEFT
         /\ raw[i + 2].type \in SPACE_RIGHT
    ELSE keep_eof_ \/ raw[i + 1].type # "EOF"

\* the tokens of pairs <<index, token>>
Lexer_tokens_of(pairs) == [k \in DOMAIN pairs |-> pairs[k][2]]

\* the filter loop of _parse_tokens: the kept tokens, in order
Lexer_clean(raw, keep_eof_) ==
    Lexer_tokens_of(SelectSeq([k \in DOMAIN raw |-> <<k - 1, raw[k]>>],
                              LAMBDA pair : Lexer_keeps(raw, pair[1], keep_eof_)))

\* self.tokens = cleaned_tokens, unless the SyntaxError ended the scan
Lexer_cleaned(self) ==
    IF self.failed THEN self
    ELSE [self EXCEPT !.tokens = Lexer_clean(self.tokens, self.keep_eof)]

Lexer_parse_tokens(self) == Lexer_cleaned(Lexer_scan(self))

\* Lexer(text, keep_eof): the object the constructor leaves
Lexer(text_, keep_eof_) == Lexer_parse_tokens(Lexer_init(text_, keep_eof_))

token_types(self) == [i \in DOMAIN self.tokens |-> self.tokens[i].type]
token_values(self) == [i \in DOMAIN self.tokens |-> self.tokens[i].value]
token_pairs(self) == [i \in DOMAIN self.tokens |-> <<self.tokens[i].type, self.tokens[i].value>>]

-----------------------------------------------------------------------------
(* AST nodes (nodes.py): the constructors                                   *)

RootNode(statements) == [kind |-> "RootNode", statements |-> statements]

StyleNode(selector_node, style_body_node, mixin_list) ==
    [kind |-> "StyleNode", selector_node |-> selector_node, mixin_list |-> mixin_list,
     style_body_node |-> style_body_node]

PropertyNode(property_token, property_value_token) ==
    [kind |-> "PropertyNode", property_token |-> property_token,
     property_value_token |-> property_value_token]

SelectorNode(single_selector_nodes, parent_selector_node) ==
    [kind |-> "SelectorNode", single_selector_nodes |-> single_selector_nodes,
     parent_selector_node |-> parent_selector_node]

SingleSelectorNode(first_selector_sequence_node, combinator_selector_list, parent_combinator, pseudo_element_node) ==
    [kind |-> "SingleSelectorNode",
     first_selector_sequence_node |-> first_selector_sequence_node,
     combinator_selector_list |-> combinator_selector_list,
     parent_combinator |-> parent_combinator,
     pseudo_element_node |-> pseudo_element_node]

AttributeSelectorNode(attribute, operator, value) ==
    [kind |-> "AttributeSelectorNode", attribute |-> attribute, operator |-> operator,
     value |-> value]

SelectorSequenceNode(sequence, attribute_selectors, pseudo_class_nodes) ==
    [kind |-> "SelectorSequenceNode", sequence |-> sequence,
     attribute_selectors |-> attribute_selectors, pseudo_class_nodes |-> pseudo_class_nodes]

PseudoClassNode(identifier, attr_selector_nodes) ==
    [kind |-> "PseudoClassNode", identifier |-> identifier,
     attr_selector_nodes |-> attr_selector_nodes]

PseudoElementNode(identifier, attr_selector_nodes) ==
    [kind |-> "PseudoElementNode", identifier |-> identifier,
     attr_selector_nodes |-> attr_selector_nodes]

StyleBodyNode(property_nodes, children_style_nodes) ==
    [kind |-> "StyleBodyNode", property_nodes |-> property_nodes,
     children_style_nodes |-> children_style_nodes]

MixinDefNode(symbol, style_body_node) ==
    [kind |-> "MixinDefNode", symbol |-> symbol, style_body_node |-> style_body_node]

AliasDefNode(symbol, selector_node) ==
    [kind |-> "AliasDefNode", symbol |-> symbol, selector_node |-> selector_node]

IdentifierListNode(identifiers) == [kind |-> "IdentifierListNode", identifiers |-> identifiers]

\* isinstance(node, CSSNode): the definitions and the identifier list are plain Nodes
IsCSSNode(node) == node.kind \notin {"MixinDefNode", "AliasDefNode", "IdentifierListNode"}


-----------------------------------------------------------------------------
(* Parser (parser.py).  The parser is [tokens, index] and what has become of *)
(* the call under way: status "ok" with node the value the last method       *)
(* returned (or the list a loop has built so far); "error" when a ValueError *)
(* (expected, got) or the AttributeError of a token list read past its end   *)
(* (expected = {}) has been raised; "hang" when a while loop is entered on a *)
(* token none of its branches takes, so that it runs on without changing the *)
(* parser.  A method called on a parser that is not "ok" leaves it alone.    *)

Parser_init(toks) ==
    [tokens |-> toks, index |-> 0, status |-> "ok", node |-> None, expected |-> {},
     got |-> None]

current_token(self) ==
    IF self.index < Len(self.tokens) THEN self.tokens[self.index + 1] ELSE None

\* raise ValueError(f'Expected {token_type}, got {self.current_token}')
Parser_raise(self, expected, got) ==
    [self EXCEPT !.status = "error", !.node = None, !.expected = expected, !.got = got]

\* a while loop that no branch leaves
Parser_hang(self) == [self EXCEPT !.status = "hang", !.node = None]

\* self.current_token.type is read: off None it is the AttributeError
Parser_read_type(self) ==
    IF self.status = "ok" /\ current_token(self) = None THEN Parser_raise(self, {}, None)
    ELSE self

\* self.current_token.type in types, for a parser that is still running
Parser_type_in(self, types) ==
    /\ self.status = "ok"
    /\ current_token(self) # None
    /\ current_token(self).type \in types

\* return node
Parser_return(self, node) == IF self.status = "ok" THEN [self EXCEPT !.node = node] ELSE self

\* list.append(<what the method just called returned>)
Parser_appended(self, list) == Parser_return(self, Append(list, self.node))

\* _type_check_and_advance(token_type) for a token type or a collection of them
Parser_type_check_and_advance(self, token_type) ==
    IF Parser_type_in(self, token_type) THEN [self EXCEPT !.index = @ + 1]
    ELSE IF Parser_read_type(self).status # "ok" THEN Parser_read_type(self)
    ELSE Parser_raise(self, token_type, current_token(self))

\* _type_check_and_advance(): no type given, the index moves on whatever the token
Parser_advance(self) == IF self.status = "ok" THEN [self EXCEPT !.index = @ + 1] ELSE self

\* _make_attribute_selector_node from the closing bracket on
Parser_attribute_close(self, attr, op, val) ==
    Parser_return(Parser_type_check_and_advance(self, {"SQUARE_R"}),
                  AttributeSelectorNode(attr, op, val))

\* ... from "val = self.current_token" on
Parser_attribute_value(self, attr, op) ==
    Parser_attribute_close(Parser_type_check_and_advance(self, {"STRING", "IDENTIFIER"}),
                           attr, op, current_token(self))

\* ... from "op = val = None" on
Parser_attribute_operator(self, attr) ==
    IF Parser_type_in(self, ATTRIBUTE_OPERATORS)
    THEN Parser_attribute_value(Parser_type_check_and_advance(self, ATTRIBUTE_OPERATORS),
                                attr, current_token(self))
    ELSE Parser_attribute_close(Parser_read_type(self), attr, None, None)

\* ... from "attr = self.current_token" on
Parser_attribute_name(self) ==
    Parser_attribute_operator(Parser_type_check_and_advance(self, {"IDENTIFIER"}),
                              current_token(self))

Parser_make_attribute_selector_node(self) ==
    Parser_attribute_name(Parser_type_check_and_advance(self, {"SQUARE_L"}))

\* the pseudo node returned, attr_selectors being what self.node holds
Parser_pseudo_return(self, kind, identifier) ==
    Parser_return(self, [kind |-> kind, identifier |-> identifier,
                         attr_selector_nodes |-> self.node])

\* attr_selectors = []; if ...SQUARE_L: attr_selectors.append(...)
Parser_pseudo_attributes(self, kind, identifier) ==
    Parser_pseudo_return(
        IF Parser_type_in(self, {"SQUARE_L"})
        THEN Parser_appended(Parser_make_attribute_selector_node(self), <<>>)
        ELSE Parser_return(Parser_read_type(self), <<>>),
        kind, identifier)

\* ... from "identifier = self.current_token" on
Parser_pseudo_identifier(self, kind) ==
    Parser_pseudo_attributes(Parser_type_check_and_advance(self, {"IDENTIFIER"}),
                             kind, current_token(self))

\* the shared body of _make_pseudo_class_node and _make_pseudo_element_node
Parser_make_pseudo(self, opening, kind) ==
    Parser_pseudo_identifier(Parser_type_check_and_advance(self, {opening}), kind)

Parser_make_pseudo_class_node(self) ==
    Parser_make_pseudo(self, "SINGLE_COLON", "PseudoClassNode")

Parser_make_pseudo_element_node(self) ==
    Parser_make_pseudo(self, "PSEUDO_ELEMENT", "PseudoElementNode")

\* the three while loops of _make_selector_sequence_node, self.node the list so far
RECURSIVE Parser_sequence_tokens(_)
Parser_sequence_tokens(self) ==
    IF Parser_type_in(self, STYLE_BEGIN \cup IDENTIFIERS)
    THEN Parser_sequence_tokens(
             Parser_return(Parser_advance(self), Append(self.node, current_token(self))))
    ELSE Parser_read_type(self)

RECURSIVE Parser_sequence_attrs(_)
Parser_sequence_attrs(self) ==
    IF Parser_type_in(self, {"SQUARE_L"})
    THEN Parser_sequence_attrs(
             Parser_appended(Parser_make_attribute_selector_node(self), self.node))
    ELSE Parser_read_type(self)

RECURSIVE Parser_sequence_pseudos(_)
Parser_sequence_pseudos(self) ==
    IF Parser_type_in(self, {"SINGLE_COLON"})
    THEN Parser_sequence_pseudos(
             Parser_appended(Parser_make_pseudo_class_node(self), self.node))
    ELSE Parser_read_type(self)

\* return SelectorSequenceNode(tokens, attr_selectors, pseudo_class_nodes)
Parser_sequence_return(self, tokens_, attr_selectors) ==
    Parser_return(self, SelectorSequenceNode(tokens_, attr_selectors, self.node))

\* ... from the third loop on
Parser_sequence_after_attrs(self, tokens_) ==
    Parser_sequence_return(Parser_sequence_pseudos(Parser_return(self, <<>>)),
                           tokens_, self.node)

\* ... from the second loop on
Parser_sequence_after_tokens(self) ==
    Parser_sequence_after_attrs(Parser_sequence_attrs(Parser_return(self, <<>>)),
                                self.node)

Parser_make_selector_sequence_node(self) ==
    Parser_sequence_after_tokens(Parser_sequence_tokens(Parser_return(self, <<>>)))

\* pairs.append((combinator, selector_sequence_node))
Parser_pair_appended(self, pairs, combinator) ==
    Parser_return(self, Append(pairs, <<combinator, self.node>>))

\* the while loop of _make_single_selector_node, self.node the pairs so far
RECURSIVE Parser_single_pairs(_)
Parser_single_pairs(self) ==
    IF Parser_type_in(self, COMBINATORS \cup {"SPACE"})
    THEN Parser_single_pairs(
             Parser_pair_appended(Parser_make_selector_sequence_node(Parser_advance(self)),
                                  self.node, current_token(self)))
    ELSE Parser_read_type(self)

\* return SingleSelectorNode(first_node, pairs, parent_combinator, pseudo_element)
Parser_single_return(self, parent_combinator, first_node, pairs) ==
    Parser_return(self, SingleSelectorNode(first_node, pairs, parent_combinator, self.node))

\* ... from "pseudo_element = None" on
Parser_single_pseudo_element(self, parent_combinator, first_node) ==
    Parser_single_return(
        IF Parser_type_in(self, {"PSEUDO_ELEMENT"})
        THEN Parser_make_pseudo_element_node(self)
        ELSE Parser_return(Parser_read_type(self), None),
        parent_combinator, first_node, self.node)

\* ... from "pairs = []" on
Parser_single_after_first(self, parent_combinator) ==
    Parser_single_pseudo_element(Parser_single_pairs(Parser_return(self, <<>>)),
                                 parent_combinator, self.node)

\* a leading combinator means the selector is nested
Parser_make_single_selector_node(self) ==
    Parser_single_after_first(
        Parser_make_selector_sequence_node(
            IF Parser_type_in(self, COMBINATORS) THEN Parser_advance(self)
            ELSE Parser_read_type(self)),
        IF Parser_type_in(self, COMBINATORS) THEN current_token(self) ELSE None)

RECURSIVE Parser_selector_singles(_)
RECURSIVE Parser_selector_more(_)

\* single_selector_nodes.append(self._make_single_selector_node()), self.node the
\* single selectors so far
Parser_selector_singles(self) ==
    Parser_selector_more(Parser_appended(Parser_make_single_selector_node(self), self.node))

\* the while loop of _make_selector_node
Parser_selector_more(self) ==
    IF Parser_type_in(self, {"COMMA"})
    THEN Parser_selector_singles(Parser_type_check_and_advance(self, {"COMMA"}))
    ELSE Parser_read_type(self)

\* _make_selector_node dropping the enclosing selector it was given
Parser_selector_return_no_parent(self, parent_selector) ==
    Parser_return(self, SelectorNode(self.node, None))

\* return SelectorNode(single_selector_nodes, parent_selector)
Parser_selector_return(self, parent_selector) ==
    Parser_return(self, SelectorNode(self.node, parent_selector))

Parser_make_selector_node(self, parent_selector) ==
    Parser_selector_return(Parser_selector_singles(Parser_return(self, <<>>)),
                           parent_selector)

\* the while loop of _make_identifier_list_node, self.node the identifiers so far
RECURSIVE Parser_identifier_list_loop(_)
Parser_identifier_list_loop(self) ==
    IF Parser_type_in(self, {"COMMA"})
    THEN Parser_identifier_list_loop(
             Parser_return(Parser_type_check_and_advance(Parser_advance(self), {"IDENTIFIER"}),
                           Append(self.node, current_token(Parser_advance(self)))))
    ELSE Parser_read_type(self)

\* return IdentifierListNode(identifiers)
Parser_identifier_list_return(self) == Parser_return(self, IdentifierListNode(self.node))

Parser_make_identifier_list_node(self) ==
    Parser_identifier_list_return(
        Parser_identifier_list_loop(
            Parser_return(Parser_type_check_and_advance(self, IDENTIFIERS),
                          <<current_token(self)>>)))

\* ... from "prop_val = self.current_token" on
Parser_property_value(self, prop) ==
    Parser_return(
        Parser_type_check_and_advance(
            Parser_type_check_and_advance(self, {"CSS_PROPERTY_VALUE"}), {"LINE_END"}),
        PropertyNode(prop, current_token(self)))

Parser_make_property_node(self) ==
    Parser_property_value(
        Parser_type_check_and_advance(
            Parser_type_check_and_advance(self, {"CSS_PROPERTY"}), {"SINGLE_COLON"}),
        current_token(self))

RECURSIVE Parser_make_style(_, _)
RECURSIVE Parser_style_body_loop(_, _)

\* body.property_nodes.append(<the property node just made>)
Parser_property_appended(self, body) ==
    Parser_return(self, [body EXCEPT !.property_nodes = Append(@, self.node)])

\* body.children_style_nodes.append(child_style)
Parser_child_appended(self, body) ==
    Parser_return(self, [body EXCEPT !.children_style_nodes = Append(@, self.node)])

\* the while loop of _make_style_body and the closing brace after it, self.node
\* the body so far
Parser_style_body_loop(self, selector) ==
    IF Parser_type_in(self, {"CURLY_R"})
    THEN Parser_type_check_and_advance(self, {"CURLY_R"})
    ELSE IF Parser_type_in(self, {"CSS_PROPERTY"})
    THEN Parser_style_body_loop(
             Parser_property_appended(Parser_make_property_node(self), self.node), selector)
    ELSE IF Parser_type_in(self, COMBINATORS \cup STYLE_BEGIN)
    THEN Parser_style_body_loop(
             Parser_child_appended(Parser_make_style(self, selector), self.node), selector)
    ELSE IF Parser_read_type(self).status = "ok" THEN Parser_hang(self)
    ELSE Parser_read_type(self)

Parser_make_style_body(self, selector) ==
    Parser_style_body_loop(
        Parser_return(Parser_type_check_and_advance(self, {"CURLY_L"}),
                      StyleBodyNode(<<>>, <<>>)),
        selector)

\* style = StyleNode(selector_node, body_node, mixin_list); return style
Parser_style_return(self, selector_node, mixin_list) ==
    Parser_return(self, StyleNode(selector_node, self.node, mixin_list))

\* ... from "body_node = ..." on, self.node the mixin list
Parser_style_body(self, selector_node) ==
    Parser_style_return(Parser_make_style_body(self, selector_node), selector_node,
                        self.node)

\* ... from "mixin_list = None" on, self.node the selector node
Parser_style_using(self) ==
    Parser_style_body(
        IF Parser_type_in(self, {"USING"})
        THEN Parser_make_identifier_list_node(Parser_advance(self))
        ELSE Parser_return(Parser_read_type(self), None),
        self.node)

Parser_make_style(self, parent_selector) ==
    Parser_style_using(Parser_make_selector_node(self, parent_selector))

\* return MixinDefNode(symbol, style_body)
Parser_mixin_return(self, symbol) == Parser_return(self, MixinDefNode(symbol, self.node))

\* the MIXIN token is passed without a check
Parser_make_mixin_def(self) ==
    Parser_mixin_return(
        Parser_make_style_body(
            Parser_type_check_and_advance(Parser_advance(self), IDENTIFIERS), None),
        current_token(Parser_advance(self)))

\* return AliasDefNode(symbol, selector)
Parser_alias_return(self, symbol) == Parser_return(self, AliasDefNode(symbol, self.node))

\* ... from "symbol = self.current_token" on
Parser_alias_symbol(self) ==
    Parser_alias_return(
        Parser_make_selector_node(
            Parser_type_check_and_advance(
                Parser_type_check_and_advance(self, IDENTIFIERS), {"AS"}),
            None),
        current_token(self))

Parser_make_alias_def(self) ==
    Parser_alias_symbol(Parser_type_check_and_advance(self, {"ALIAS"}))

\* the statement a pass of the while loop of _make_root makes
Parser_make_statement(self) ==
    IF Parser_type_in(self, {"MIXIN"}) THEN Parser_make_mixin_def(self)
    ELSE IF Parser_type_in(self, {"ALIAS"}) THEN Parser_make_alias_def(self)
    ELSE Parser_make_style(self, None)

\* the while loop of _make_root, self.node the statements so far
RECURSIVE Parser_root_loop(_)
Parser_root_loop(self) ==
    IF Parser_type_in(self, {"EOF"}) THEN self
    ELSE IF Parser_type_in(self, STYLE_BEGIN \cup {"SQUARE_L", "SINGLE_COLON", "MIXIN", "ALIAS"})
    THEN Parser_root_loop(Parser_appended(Parser_make_statement(self), self.node))
    ELSE IF Parser_read_type(self).status = "ok" THEN Parser_hang(self)
    ELSE Parser_read_type(self)

\* return RootNode(statements)
Parser_root_return(self) == Parser_return(self, RootNode(self.node))

Parser_make_root(self) == Parser_root_return(Parser_root_loop(Parser_return(self, <<>>)))

\* Parser(tokens).parse()
Parser_parse(toks) == Parser_make_root(Parser_init(toks))

-----------------------------------------------------------------------------
(* Emission (nodes.py).  A method that can raise gives [status, value,      *)
(* error]: "ok" with the value returned, or "error" with the exception.     *)

Returned(value) == [status |-> "ok", value |-> value, error |-> "<none>"]
Raised(error) == [status |-> "error", value |-> NoValue, error |-> error]

\* the first exception a loop over results meets
FirstRaised(results) ==
    CHOOSE i \in DOMAIN results :
        /\ results[i].status # "ok"
        /\ \A j \in 1..(i - 1) : results[j].status = "ok"

\* [f(x) for x in list], results being f(x) for each x in order: the list of the
\* values, unless one of them raises
Collect(results) ==
    IF \A i \in DOMAIN results : results[i].status = "ok"
    THEN Returned([i \in DOMAIN results |-> results[i].value])
    ELSE results[FirstRaised(results)]

\* sep.join(list) of a list that may have raised
Joined(sep, list) == IF list.status # "ok" THEN list ELSE Returned(join(sep, list.value))

\* sep.join(sorted(list)) of a list that may have raised
JoinedSorted(sep, list) ==
    IF list.status # "ok" THEN list ELSE Returned(join(sep, sorted(list.value)))

\* ''.join(f(x) for x in list)
RECURSIVE concat_map(_, _)
concat_map(f(_), list) ==
    IF list = <<>> THEN "" ELSE f(Head(list)) \o concat_map(f, Tail(list))

\* the lists of a list in one
RECURSIVE Flatten(_)
Flatten(lists) == IF lists = <<>> THEN <<>> ELSE Head(lists) \o Flatten(Tail(lists))

token_value(token) == token.value

\* the value of an attribute selector: a STRING is put back into double quotes
AttributeSelectorNode_value(self) ==
    IF self.value.type = "STRING" THEN "\"" \o self.value.value \o "\""
    ELSE self.value.value

AttributeSelectorNode_parse_css(self) ==
    IF self.operator = None THEN "[" \o self.attribute.value \o "]"
    ELSE "[" \o self.attribute.value \o " " \o self.operator.value \o " "
             \o AttributeSelectorNode_value(self) \o "]"

AttributeSelectorNode_parse_min_css(self) ==
    IF self.operator = None THEN "[" \o self.attribute.value \o "]"
    ELSE "[" \o self.attribute.value \o self.operator.value
             \o AttributeSelectorNode_value(self) \o "]"

PseudoClassNode_parse_css(self) ==
    ":" \o self.identifier.value
        \o concat_map(AttributeSelectorNode_parse_css, self.attr_selector_nodes)

PseudoClassNode_parse_min_css(self) ==
    ":" \o self.identifier.value
        \o concat_map(AttributeSelectorNode_parse_min_css, self.attr_selector_nodes)

PseudoElementNode_parse_css(self) ==
    "::" \o self.identifier.value
         \o concat_map(AttributeSelectorNode_parse_css, self.attr_selector_nodes)

PseudoElementNode_parse_min_css(self) ==
    "::" \o self.identifier.value
         \o concat_map(AttributeSelectorNode_parse_min_css, self.attr_selector_nodes)

SelectorSequenceNode_parse_css(self) ==
    concat_map(token_value, self.sequence)
        \o concat_map(AttributeSelectorNode_parse_css, self.attribute_selectors)
        \o concat_map(PseudoClassNode_parse_css, self.pseudo_class_nodes)

SelectorSequenceNode_parse_min_css(self) ==
    concat_map(token_value, self.sequence)
        \o concat_map(AttributeSelectorNode_parse_min_css, self.attribute_selectors)
        \o concat_map(PseudoClassNode_parse_min_css, self.pseudo_class_nodes)

\* one (combinator, selector) pair of SingleSelectorNode.parse_css
SingleSelectorNode_pair_css(pair) ==
    (IF pair[1].type # "SPACE" THEN " " \o pair[1].value \o " " ELSE " ")
        \o SelectorSequenceNode_parse_css(pair[2])

\* the pair with its combinator left out: "div > p" would be "divp" minified
SingleSelectorNode_pair_min_css_no_combinator(pair) ==
    SelectorSequenceNode_parse_min_css(pair[2])

\* one (combinator, selector) pair of SingleSelectorNode.parse_min_css
SingleSelectorNode_pair_min_css(pair) ==
    pair[1].value \o SelectorSequenceNode_parse_min_css(pair[2])

SingleSelectorNode_parse_css(self) ==
    (IF self.parent_combinator # None THEN self.parent_combinator.value ELSE "")
        \o SelectorSequenceNode_parse_css(self.first_selector_sequence_node)
        \o concat_map(SingleSelectorNode_pair_css, self.combinator_selector_list)
        \o (IF self.pseudo_element_node # None
            THEN PseudoElementNode_parse_css(self.pseudo_element_node) ELSE "")

SingleSelectorNode_parse_min_css(self) ==
    (IF self.parent_combinator # None THEN self.parent_combinator.value ELSE "")
        \o SelectorSequenceNode_parse_min_css(self.first_selector_sequence_node)
        \o concat_map(SingleSelectorNode_pair_min_css, self.combinator_selector_list)
        \o (IF self.pseudo_element_node # None
            THEN PseudoElementNode_parse_min_css(self.pseudo_element_node) ELSE "")

\* the body of the loops of SelectorNode.parse_list_css / parse_list_min_css:
\* single_css[0] of an empty string is the IndexError
SelectorNode_combine(parent_selector_string, single_css) ==
    IF single_css = "" THEN Raised("IndexError")
    ELSE Returned(parent_selector_string
                      \o (IF Char(single_css, 0) \notin {"+", "~", ">"} THEN " " ELSE "")
                      \o single_css)

\* the two loops with the outer one cut short: only the first of the parent's
\* selector strings is paired
SelectorNode_combinations_first_parent(parent_list, singles_css) ==
    Collect([k \in 1..Len(singles_css) |->
                SelectorNode_combine(parent_list[1], singles_css[k])])

\* the two loops the other way round: for each single selector, each of the
\* parent's selector strings
SelectorNode_combinations_child_major(parent_list, singles_css) ==
    Collect([k \in 1..(Len(parent_list) * Len(singles_css)) |->
                SelectorNode_combine(parent_list[((k - 1) % Len(parent_list)) + 1],
                                     singles_css[((k - 1) \div Len(parent_list)) + 1])])

\* the two loops: for each of the parent's selector strings, each single selector
SelectorNode_combinations(parent_list, singles_css) ==
    Collect([k \in 1..(Len(parent_list) * Len(singles_css)) |->
                SelectorNode_combine(parent_list[((k - 1) \div Len(singles_css)) + 1],
                                     singles_css[((k - 1) % Len(singles_css)) + 1])])

\* ... from "selectors = []" on, parent being what the parent's list call gave
SelectorNode_under(parent, singles_css) ==
    IF parent.status # "ok" THEN parent
    ELSE SelectorNode_combinations(parent.value, singles_css)

RECURSIVE SelectorNode_parse_list_css(_)
SelectorNode_parse_list_css(self) ==
    IF self.parent_selector_node = None
    THEN Returned([i \in DOMAIN self.single_selector_nodes |->
                      SingleSelectorNode_parse_css(self.single_selector_nodes[i])])
    ELSE SelectorNode_under(
             SelectorNode_parse_list_css(self.parent_selector_node),
             [i \in DOMAIN self.single_selector_nodes |->
                 SingleSelectorNode_parse_css(self.single_selector_nodes[i])])

RECURSIVE SelectorNode_parse_list_min_css(_)
SelectorNode_parse_list_min_css(self) ==
    IF self.parent_selector_node = None
    THEN Returned([i \in DOMAIN self.single_selector_nodes |->
                      SingleSelectorNode_parse_min_css(self.single_selector_nodes[i])])
    ELSE SelectorNode_under(
             SelectorNode_parse_list_min_css(self.parent_selector_node),
             [i \in DOMAIN self.single_selector_nodes |->
                 SingleSelectorNode_parse_min_css(self.single_selector_nodes[i])])

SelectorNode_parse_css(self) == Joined(", ", SelectorNode_parse_list_css(self))

\* the list joined after sorting it, as the blocks of a style are
SelectorNode_parse_min_css_sorted(self) ==
    JoinedSorted(",", SelectorNode_parse_list_min_css(self))

SelectorNode_parse_min_css(self) == Joined(",", SelectorNode_parse_list_min_css(self))

PropertyNode_parse_css(self) ==
    "  " \o self.property_token.value \o ": " \o self.property_value_token.value

PropertyNode_parse_min_css(self) ==
    self.property_token.value \o ":" \o self.property_value_token.value

StyleBodyNode_parse_list_css(self) ==
    [i \in DOMAIN self.property_nodes |-> PropertyNode_parse_css(self.property_nodes[i])]

StyleBodyNode_parse_list_min_css(self) ==
    [i \in DOMAIN self.property_nodes |-> PropertyNode_parse_min_css(self.property_nodes[i])]

\* Compiler.get_mixin / get_alias: a name not in the table is the KeyError
Compiler_get_mixin(compiler, name) ==
    IF name \in DOMAIN compiler.mixin_table THEN Returned(compiler.mixin_table[name])
    ELSE Raised("KeyError")

Compiler_get_alias(compiler, name) ==
    IF name \in DOMAIN compiler.alias_table THEN Returned(compiler.alias_table[name])
    ELSE Raised("KeyError")

\* compiler.get_mixin(identifier.value).style_body_node.parse_list_css(compiler)
StyleNode_mixin_css(mixin) ==
    IF mixin.status # "ok" THEN mixin
    ELSE Returned(StyleBodyNode_parse_list_css(mixin.value.style_body_node))

StyleNode_mixin_min_css(mixin) ==
    IF mixin.status # "ok" THEN mixin
    ELSE Returned(StyleBodyNode_parse_list_min_css(mixin.value.style_body_node))

\* the loop over the mixin list with its body left out: the style's own
\* properties only
StyleNode_not_extended(properties, mixins) ==
    IF mixins.status # "ok" THEN mixins ELSE Returned(properties)

\* properties += ... for each mixin, mixins being the lists the loop has met
StyleNode_extended(properties, mixins) ==
    IF mixins.status # "ok" THEN mixins ELSE Returned(properties \o Flatten(mixins.value))

\* the properties of a style: its own, then those of each mixin of its list
StyleNode_properties_css(self, compiler) ==
    IF self.mixin_list = None THEN Returned(StyleBodyNode_parse_list_css(self.style_body_node))
    ELSE StyleNode_extended(
             StyleBodyNode_parse_list_css(self.style_body_node),
             Collect([i \in DOMAIN self.mixin_list.identifiers |->
                         StyleNode_mixin_css(
                             Compiler_get_mixin(compiler, self.mixin_list.identifiers[i].value))]))

StyleNode_properties_min_css(self, compiler) ==
    IF self.mixin_list = None
    THEN Returned(StyleBodyNode_parse_list_min_css(self.style_body_node))
    ELSE StyleNode_extended(
             StyleBodyNode_parse_list_min_css(self.style_body_node),
             Collect([i \in DOMAIN self.mixin_list.identifiers |->
                         StyleNode_mixin_min_css(
                             Compiler_get_mixin(compiler, self.mixin_list.identifiers[i].value))]))

\* selector + (' {\n' + ';\n'.join(sorted(properties)) + '\n}' if properties else ' {}')
StyleNode_block_css(selector, properties) ==
    selector \o (IF properties # <<>>
                 THEN " {\n" \o join(";\n", sorted(properties)) \o "\n}"
                 ELSE " {}")

\* selector + ('{' + ';'.join(sorted(properties)) + '}' if properties else '{}')
StyleNode_block_min_css(selector, properties) ==
    selector \o (IF properties # <<>>
                 THEN "{" \o join(";", sorted(properties)) \o "}"
                 ELSE "{}")

\* parse_css from what its calls gave, in the order it makes them: the selector,
\* the properties, the children
StyleNode_styles_css(selector, properties, children) ==
    IF selector.status # "ok" THEN selector
    ELSE IF properties.status # "ok" THEN properties
    ELSE IF children.status # "ok" THEN children
    ELSE Returned(join("\n", sorted(<<StyleNode_block_css(selector.value, properties.value)>>
                                        \o children.value)))

StyleNode_styles_min_css(selector, properties, children) ==
    IF selector.status # "ok" THEN selector
    ELSE IF properties.status # "ok" THEN properties
    ELSE IF children.status # "ok" THEN children
    ELSE Returned(join("", sorted(<<StyleNode_block_min_css(selector.value, properties.value)>>
                                      \o children.value)))

RECURSIVE StyleNode_parse_css(_, _)
StyleNode_parse_css(self, compiler) ==
    StyleNode_styles_css(
        SelectorNode_parse_css(self.selector_node),
        StyleNode_properties_css(self, compiler),
        Collect([i \in DOMAIN self.style_body_node.children_style_nodes |->
                    StyleNode_parse_css(self.style_body_node.children_style_nodes[i],
                                        compiler)]))

RECURSIVE StyleNode_parse_min_css(_, _)
StyleNode_parse_min_css(self, compiler) ==
    StyleNode_styles_min_css(
        SelectorNode_parse_min_css(self.selector_node),
        StyleNode_properties_min_css(self, compiler),
        Collect([i \in DOMAIN self.style_body_node.children_style_nodes |->
                    StyleNode_parse_min_css(self.style_body_node.children_style_nodes[i],
                                            compiler)]))

\* [stmt for stmt in self.statements if isinstance(stmt, CSSNode)]
RootNode_css_statements(self) == SelectSeq(self.statements, IsCSSNode)

RootNode_parse_css(self, compiler) ==
    JoinedSorted("\n", Collect([i \in DOMAIN RootNode_css_statements(self) |->
                                   StyleNode_parse_css(RootNode_css_statements(self)[i],
                                                       compiler)]))

RootNode_parse_min_css(self, compiler) ==
    JoinedSorted("", Collect([i \in DOMAIN RootNode_css_statements(self) |->
                                 StyleNode_parse_min_css(RootNode_css_statements(self)[i],
                                                         compiler)]))

\* parse_list_css handing out the list the body holds instead of a new one
StyleBodyNode_parse_list_object_own(self) == "property_nodes"

\* the list object parse_list_css and parse_list_min_css return: the list their
\* comprehension builds, a new object that no node holds
StyleBodyNode_parse_list_object(self) == "comprehension"

\* the mixins that the loop over the mixin list has got before it ends or
\* get_mixin raises the KeyError
RECURSIVE StyleNode_mixins_met(_, _)
StyleNode_mixins_met(identifiers, compiler) ==
    IF identifiers = <<>> THEN <<>>
    ELSE IF Compiler_get_mixin(compiler, Head(identifiers).value).status # "ok" THEN <<>>
    ELSE <<Compiler_get_mixin(compiler, Head(identifiers).value).value>>
             \o StyleNode_mixins_met(Tail(identifiers), compiler)

\* the style node after `properties += ...` for each mixin met: += extends in
\* place the list object that properties names, which is the list of the body
\* only if parse_list_css had returned that list itself
StyleNode_after_extend(self, mixins) ==
    IF StyleBodyNode_parse_list_object(self.style_body_node) = "comprehension" THEN self
    ELSE [self EXCEPT !.style_body_node.property_nodes =
             @ \o Flatten([i \in DOMAIN mixins |-> mixins[i].style_body_node.property_nodes])]

StyleNode_after_properties(self, compiler) ==
    IF self.mixin_list = None THEN self
    ELSE StyleNode_after_extend(self, StyleNode_mixins_met(self.mixin_list.identifiers, compiler))

\* a style node after its parse_css or parse_min_css: nothing more is reached
\* once the selector, the properties or a child before has raised
RECURSIVE StyleNode_after_parse(_, _, _)
StyleNode_after_parse(self, compiler, minified) ==
    IF (IF minified THEN SelectorNode_parse_min_css(self.selector_node)
        ELSE SelectorNode_parse_css(self.selector_node)).status # "ok"
    THEN self
    ELSE IF (IF minified THEN StyleNode_properties_min_css(self, compiler)
             ELSE StyleNode_properties_css(self, compiler)).status # "ok"
    THEN StyleNode_after_properties(self, compiler)
    ELSE [StyleNode_after_properties(self, compiler) EXCEPT
             !.style_body_node.children_style_nodes =
                 [i \in DOMAIN self.style_body_node.children_style_nodes |->
                     IF \A j \in 1..(i - 1) :
                            (IF minified
                             THEN StyleNode_parse_min_css(
                                      self.style_body_node.children_style_nodes[j], compiler)
                             ELSE StyleNode_parse_css(
                                      self.style_body_node.children_style_nodes[j], compiler)
                            ).status = "ok"
                     THEN StyleNode_after_parse(
                              self.style_body_node.children_style_nodes[i], compiler, minified)
                     ELSE self.style_body_node.children_style_nodes[i]]]

\* the root node after its parse_css or parse_min_css: the comprehension calls
\* the CSS statements in order and ends at the first that raises
RootNode_after_parse(self, compiler, minified) ==
    [self EXCEPT !.statements =
        [i \in DOMAIN self.statements |->
            IF /\ IsCSSNode(self.statements[i])
               /\ \A j \in 1..(i - 1) :
                      IsCSSNode(self.statements[j]) =>
                          (IF minified THEN StyleNode_parse_min_css(self.statements[j], compiler)
                           ELSE StyleNode_parse_css(self.statements[j], compiler)).status = "ok"
            THEN StyleNode_after_parse(self.statements[i], compiler, minified)
            ELSE self.statements[i]]]


-----------------------------------------------------------------------------
(* Compiler (compiler.py).  The compiler is [mixin_table, alias_table]; the *)
(* root node it was built on is passed along.                               *)

EmptyTable == [name \in {} |-> None]

\* Compiler.__init__: the tables of a new Compiler
Compiler_init == [mixin_table |-> EmptyTable, alias_table |-> EmptyTable]

\* the for loop of _traverse: [mixin_table, alias_table, status, error]; the
\* tables stay as far as they were filled when the ValueError is raised
\* the loop of _traverse without its two "in the table" checks: a later
\* definition takes the place of an earlier one of the same name
RECURSIVE Compiler_traverse_loop_overwriting(_, _)
Compiler_traverse_loop_overwriting(self, statements) ==
    IF statements = <<>> THEN self
    ELSE IF Head(statements).kind = "MixinDefNode"
    THEN Compiler_traverse_loop_overwriting(
             [self EXCEPT !.mixin_table =
                 (Head(statements).symbol.value :> Head(statements)) @@ @],
             Tail(statements))
    ELSE IF Head(statements).kind = "AliasDefNode"
    THEN Compiler_traverse_loop_overwriting(
             [self EXCEPT !.alias_table =
                 (Head(statements).symbol.value :> Head(statements)) @@ @],
             Tail(statements))
    ELSE Compiler_traverse_loop_overwriting(self, Tail(statements))

RECURSIVE Compiler_traverse_loop(_, _)
Compiler_traverse_loop(self, statements) ==
    IF statements = <<>> \/ self.status # "ok" THEN self
    ELSE IF Head(statements).kind = "MixinDefNode"
    THEN IF Head(statements).symbol.value \in DOMAIN self.mixin_table
         THEN [self EXCEPT !.status = "error", !.error = "ValueError"]
         ELSE Compiler_traverse_loop(
                  [self EXCEPT !.mixin_table =
                      (Head(statements).symbol.value :> Head(statements)) @@ @],
                  Tail(statements))
    ELSE IF Head(statements).kind = "AliasDefNode"
    THEN IF Head(statements).symbol.value \in DOMAIN self.alias_table
         THEN [self EXCEPT !.status = "error", !.error = "ValueError"]
         ELSE Compiler_traverse_loop(
                  [self EXCEPT !.alias_table =
                      (Head(statements).symbol.value :> Head(statements)) @@ @],
                  Tail(statements))
    ELSE Compiler_traverse_loop(self, Tail(statements))

\* a _traverse without its first two lines: the loop would start from the tables
\* the call before left in the compiler
Compiler_traverse_keeping_tables(compiler, root_node) ==
    Compiler_traverse_loop(
        [mixin_table |-> compiler.mixin_table, alias_table |-> compiler.alias_table,
         status |-> "ok", error |-> "<none>"],
        root_node.statements)

\* _traverse: both tables are set to {} first, whatever the compiler held
Compiler_traverse(compiler, root_node) ==
    Compiler_traverse_loop(
        [mixin_table |-> EmptyTable, alias_table |-> EmptyTable, status |-> "ok",
         error |-> "<none>"],
        root_node.statements)

\* the rest of compile_css once _traverse is through: the emission in the mode
\* asked for, with the tables _traverse left
Compiler_emit(traversed, root_node, minified) ==
    [mixin_table |-> traversed.mixin_table,
     alias_table |-> traversed.alias_table,
     result |-> IF traversed.status # "ok" THEN Raised(traversed.error)
                ELSE IF minified THEN RootNode_parse_min_css(root_node, traversed)
                ELSE RootNode_parse_css(root_node, traversed)]

\* the root node after compile_css(minified): _traverse assigns to the tables
\* only, and the emission is not reached when it raises
Compiler_root_after(traversed, root_node, minified) ==
    IF traversed.status # "ok" THEN root_node
    ELSE RootNode_after_parse(root_node, traversed, minified)

\* compile_css(minified): [mixin_table, alias_table, result]
Compiler_compile_css(compiler, root_node, minified) ==
    Compiler_emit(Compiler_traverse(compiler, root_node), root_node, minified)


-----------------------------------------------------------------------------
(* The sources compiled                                                     *)

\* at most this many snippets make a program
MaxSnippets == 2
\* at most this many compile_css calls are made on one Compiler
MaxCalls == 3
\* styles are nested at most this deep in the nesting programs
MaxDepth == 3
\* at most this many lexemes make a spacing text
MaxLexemes == 3

\* statements (or pairs of them) of the language
Snippets ==
    {"div { }",
     "p using m { color: red; }",
     ".a, h1 using m, n { margin: 0 auto; color: blue; span using m, m { } }",
     "mixin m { color: blue; margin: 0; }\nmixin n { color: red; p { border: 0; } }",
     "mixin k { }\nmixin k { color: red; }",
     "div using zz { border: 0; }",
     "div { color: red; > p using zz { } }",
     "mixin q { div using zz { } }",
     "alias div as p, .a\nmixin e { }",
     "alias x as .a\nalias x as p",
     "alias foo as h1\nmixin f { }",
     "foo { }",
     "div > p, a[href = \"x\"]:hover::before { color: red; > span using m { margin: 0; } }",
     "div { p, { } }",
     "p using m { margin: 0 auto; border: 0; }\ndiv { }",
     "mixin d { p { a { } } }\nh1 { h2 { > h3 { } } }"}

\* the programs of exactly n snippets, one per line
RECURSIVE ProgramsOf(_)
ProgramsOf(n) ==
    IF n = 0 THEN {""}
    ELSE {(IF p = "" THEN "" ELSE p \o "\n") \o snippet :
             p \in ProgramsOf(n - 1), snippet \in Snippets}

Programs == UNION {ProgramsOf(n) : n \in 0..MaxSnippets}

\* selector groups, and the programs that nest styles with them
Groups == {"div", "p, .a", "> span", "+ h1, ~ .b, img::before"}

RECURSIVE NestingOf(_)
NestingOf(n) ==
    IF n = 0 THEN {"color: red;"}
    ELSE {group \o " { " \o inner \o " }" : group \in Groups, inner \in NestingOf(n - 1)}

NestingPrograms == UNION {NestingOf(n) : n \in 1..MaxDepth}

\* lexemes and white space in every order, and the two sources of
\* TestCompiler.test_selector_combinators
Lexemes == {"div", "x", "*", "]", ".", "#", ">", ",", "@", " ", "\n"}

RECURSIVE SpacingOf(_)
SpacingOf(n) ==
    IF n = 0 THEN {""}
    ELSE {t \o lexeme : t \in SpacingOf(n - 1), lexeme \in Lexemes}

SpacingTexts ==
    UNION {SpacingOf(n) : n \in 0..MaxLexemes}
        \cup {"div> div  >p  {  }", "div ~ . my-class p> h2 +#test {}"}

\* at most this many single selectors make a selector list
MaxSelectors == 3

\* single selectors as written, each with its minified rendering
Singles ==
    {<<"h1", "h1">>, <<".a", ".a">>, <<"#b", "#b">>, <<"p > a", "p>a">>, <<"img h2", "img h2">>}

\* the white space written around a comma
CommaPaddings == {<<"", "">>, <<"  ", "">>, <<" ", "   ">>, <<"", "\n">>}

\* the lists of exactly n single selectors, in every order
RECURSIVE SinglesOf(_)
SinglesOf(n) ==
    IF n = 0 THEN {<<>>}
    ELSE {Append(list, single) : list \in SinglesOf(n - 1), single \in Singles}

SelectorLists == UNION {SinglesOf(n) : n \in 1..MaxSelectors}

\* the list written with one padding around its commas, or its minified rendering
Written(list, padding) ==
    join(padding[1] \o "," \o padding[2], [i \in DOMAIN list |-> list[i][1]])

Minified(list) == join(",", [i \in DOMAIN list |-> list[i][2]])

\* the sources of TestCompiler (test_compiler.py)
SelectorExamples ==
    {".my-class {}", ".  my-class    {  }", "#my-class{  }    ", "h1 {}", "* {}",
     ".my-class,  #my-id    ,   h3,h1{}",
     "img h2 {}", "div> div  >p  {  }", "div ~ . my-class p> h2 +#test {}",
     "div:first-child {}", "*.test:hover::first-letter {}",
     "a:first-child div::before>#testing {}",
     "a[href$=\".pdf\"] ~ div::before {}", "[onclick]:hover {}",
     "#button   :first-child [  onclick  ]  >a:first-child[onclick= \"#\"] .text:: first-letter{}"}

\* attribute selectors: names and bare values that are plain identifiers, element
\* names, property names and keywords; every operator; quoted values
AttributeNames == {"x", "data-id", "div", "color", "as"}
AttributeOperators == {"=", "~=", "*=", "^=", "$=", "|="}
BareValues == {"y", "h1", "margin", "using"}
QuotedValues == {"\"y\"", "'y z'", "\"\""}
AttributePaddings == {"", " "}

AttributeSelectors ==
    {"[" \o padding \o name \o padding \o "]" :
        name \in AttributeNames, padding \in AttributePaddings}
    \cup {"[" \o name \o padding \o op \o padding \o value \o "]" :
             name \in AttributeNames, op \in AttributeOperators,
             value \in BareValues \cup QuotedValues, padding \in AttributePaddings}

\* a combinator as written after a pseudo-element, with its minified rendering
PseudoCombinators == {<<" ", " ">>, <<">", ">">>, <<" + ", "+">>, <<" ~", "~">>}

\* a single selector that goes on after its pseudo-element
Continued(combinator) == "div::before" \o combinator \o "p"

SelectorTexts ==
    SelectorExamples
        \cup {Continued(combinator[1]) \o " { }" : combinator \in PseudoCombinators}
        \cup {Written(list, padding) \o "{}" : list \in SelectorLists, padding \in CommaPaddings}
        \cup {"a" \o selector \o " { }" : selector \in AttributeSelectors}

\* tokens as written, for the sources the parser is run on
ParserLexemes ==
    {"div", "x", "{", "}", ";", ">", "::", "[", ":", ",", "mixin", "using"}

\* the sources of exactly n of them, a space between two
RECURSIVE ParserOf(_)
ParserOf(n) ==
    IF n = 0 THEN {""}
    ELSE {(IF t = "" THEN "" ELSE t \o " ") \o lexeme :
             t \in ParserOf(n - 1), lexeme \in ParserLexemes}

ParserTexts == UNION {ParserOf(n) : n \in 0..MaxLexemes}

\* at most this many declarations make a declaration text
MaxDeclarations == 2

\* declarations as written: the white space before the colon and the value
\* with the white space around it
DeclarationNames == {"color", "margin"}
ColonPaddings == {"", " ", "\n"}
DeclarationValues == {"red", " 0 auto "}

Declarations ==
    {name \o padding \o ":" \o value \o ";" :
         name \in DeclarationNames, padding \in ColonPaddings,
         value \in DeclarationValues}

\* exactly n of them, a space after each
RECURSIVE WrittenDeclarations(_)
WrittenDeclarations(n) ==
    IF n = 0 THEN {""}
    ELSE {t \o declaration \o " " : t \in WrittenDeclarations(n - 1), declaration \in Declarations}

\* the declarations in the body of a style and on their own
DeclarationTexts ==
    UNION {{"p { " \o t \o "}", t} : t \in UNION {WrittenDeclarations(n) : n \in 0..MaxDeclarations}}
        \cup {"p { color : red; }", "mixin m { margin  : 0; }\np using m { color: red; }",
              "div { p { color\n:red; } }", "a:hover { color ::before }",
              "p { color:red; color\n:red }", "p { color:red margin : 0 }",
              "color : red", " : red;"}

\* pieces of source text for the lexer: a property name, an element name, an
\* identifier, the colon, the ends of a value, white space, both quotes and a
\* character of no token
LexerLexemes == {"color", "div", "x", ":", ";", "}", "\n", " ", "\"", "'", "@"}

\* the sources of exactly n of them
RECURSIVE LexerOf(_)
LexerOf(n) ==
    IF n = 0 THEN {""}
    ELSE {t \o lexeme : t \in LexerOf(n - 1), lexeme \in LexerLexemes}

\* sources of TestTokens (test_tokens.py) and declarations in and out of a style
LexerExamples ==
    {", ;", "\"Test Sting\"", "( ) [ ] { }", ". # *", "+ ~ >", "= ~= *= |= ^= $=", ": ::",
     "_-_-_-1_-test-_-_-_-_-", "font-weight", "border: 1px solid blue",
     "using mixin alias as",
     "p { color : red; }", "div { margin: 0; color: red; }",
     "p { margin:  0 auto  }\n", "p{color:red;margin:  0 auto  }",
     "x { color: \"a;b\" }", "color:red;margin :0",
     "a[href$=\".pdf\"]:hover", "'a\"b' \"c", "p { color: 'x }", "color:a:b{c\nd"}

LexerTexts == UNION {LexerOf(n) : n \in 0..MaxLexemes} \cup LexerExamples

-----------------------------------------------------------------------------
(* The pipeline of __main__.py and of the tests: Lexer(text), Parser(tokens) *)
(* .parse(), Compiler(root), then compile_css calls in either mode           *)

NotCalled == [status |-> "not_called", value |-> NoValue, error |-> "<none>"]

InitWith(sources) ==
    /\ text \in sources
    /\ pc = "source"
    /\ tokens = <<>>
    /\ root = None
    /\ mixin_table = EmptyTable
    /\ alias_table = EmptyTable
    /\ calls = 0
    /\ first = [minified \in BOOLEAN |-> NotCalled]
    /\ last = [minified \in BOOLEAN |-> NotCalled]

Init == InitWith(Programs)

\* lexer = Lexer(text): the SyntaxError of an unterminated string ends the run
Lex ==
    /\ pc = "source"
    /\ LET lexer == Lexer(text, TRUE)
       IN  /\ pc' = IF lexer.failed THEN "lex_error" ELSE "lexed"
           /\ tokens' = IF lexer.failed THEN <<>> ELSE lexer.tokens
    /\ UNCHANGED <<text, root, mixin_table, alias_table, calls, first, last>>

\* root = Parser(lexer.tokens).parse(): it returns, raises, or never returns
Parse ==
    /\ pc = "lexed"
    /\ LET parsed == Parser_parse(tokens)
       IN  /\ pc' = IF parsed.status = "ok" THEN "parsed"
                    ELSE IF parsed.status = "error" THEN "parse_error"
                    ELSE "parse_hang"
           /\ root' = parsed.node
    /\ UNCHANGED <<text, tokens, mixin_table, alias_table, calls, first, last>>

\* compiler = Compiler(root)
NewCompiler ==
    /\ pc = "parsed"
    /\ pc' = "compiler"
    /\ mixin_table' = Compiler_init.mixin_table
    /\ alias_table' = Compiler_init.alias_table
    /\ UNCHANGED <<text, tokens, root, calls, first, last>>

\* compiler.compile_css(minified)
CompileCss(minified) ==
    /\ pc = "compiler"
    /\ calls < MaxCalls
    /\ LET compiled == Compiler_compile_css(
                           [mixin_table |-> mixin_table, alias_table |-> alias_table],
                           root, minified)
       IN  /\ mixin_table' = compiled.mixin_table
           /\ alias_table' = compiled.alias_table
           /\ last' = [last EXCEPT ![minified] = compiled.result]
           /\ first' = IF first[minified] = NotCalled
                       THEN [first EXCEPT ![minified] = compiled.result]
                       ELSE first
    /\ root' = Compiler_root_after(Compiler_traverse(
                                       [mixin_table |-> mixin_table,
                                        alias_table |-> alias_table], root),
                                   root, minified)
    /\ calls' = calls + 1
    /\ UNCHANGED <<text, pc, tokens>>

Next ==
    \/ Lex
    \/ Parse
    \/ NewCompiler
    \/ \E minified \in BOOLEAN : CompileCss(minified)

Spec == Init /\ [][Next]_vars

\* the same pipeline on the nesting programs
InitNesting == InitWith(NestingPrograms)
SpecNesting == InitNesting /\ [][Next]_vars

\* the same pipeline on the spacing texts
InitSpacing == InitWith(SpacingTexts)
SpecSpacing == InitSpacing /\ [][Next]_vars

\* the same pipeline on the selector texts
InitSelectors == InitWith(SelectorTexts)
SpecSelectors == InitSelectors /\ [][Next]_vars

\* the same pipeline on the parser texts
InitParser == InitWith(ParserTexts)
SpecParser == InitParser /\ [][Next]_vars

\* the same pipeline on the declaration texts
InitDeclarations == InitWith(DeclarationTexts)
SpecDeclarations == InitDeclarations /\ [][Next]_vars

\* lexer = Lexer(string, keep_eof=False), as TestTokens builds it
LexNoEof ==
    /\ pc = "source"
    /\ LET lexer == Lexer(text, FALSE)
       IN  /\ pc' = IF lexer.failed THEN "lex_error" ELSE "lexed_no_eof"
           /\ tokens' = IF lexer.failed THEN <<>> ELSE lexer.tokens
    /\ UNCHANGED <<text, root, mixin_table, alias_table, calls, first, last>>

\* the lexer alone, with and without EOF, on the lexer texts
InitLexer == InitWith(LexerTexts)
NextLexer == Lex \/ LexNoEof
SpecLexer == InitLexer /\ [][NextLexer]_vars

-----------------------------------------------------------------------------
(* Properties                                                               *)

\* compile_css has been called in this mode
Called(minified) == last[minified] # NotCalled

\* what compile_css gives on a Compiler just built on the root node
Fresh(minified) == Compiler_compile_css(Compiler_init, root, minified).result

\* C1: in either mode, every compile_css call on a Compiler gives what the first
\* call in that mode gave, text or failure, and that is what a call on a Compiler
\* just built gives: no earlier call, in the same mode or the other, that returned
\* or that failed, has a part in the result.
C1_CompileIsRepeatable ==
    \A minified \in BOOLEAN :
        Called(minified) =>
            /\ last[minified] = first[minified]
            /\ last[minified] = Fresh(minified)

\* every call the bound allows has been made, in both modes (so one mode twice),
\* on a program that defines a mixin, and text came back
C1_Witness ==
    /\ calls = MaxCalls
    /\ \A minified \in BOOLEAN : Called(minified) /\ last[minified].status = "ok"
    /\ DOMAIN mixin_table # {}
    /\ last[TRUE].value # ""

\* --- reading the emitted text ---

Range(list) == {list[i] : i \in DOMAIN list}

\* the pieces of s from index i on that the character sep parts
RECURSIVE SplitFrom(_, _, _)
SplitFrom(s, i, sep) ==
    LET j == RunEnd(s, i, LAMBDA c : c # sep)
    IN  IF j >= Len(s) THEN <<SubSeq(s, i + 1, Len(s))>>
        ELSE <<SubSeq(s, i + 1, j)>> \o SplitFrom(s, j + 1, sep)

Split(s, sep) == SplitFrom(s, 0, sep)

\* the pieces, without the white space around them and without the empty ones
Pieces(s, sep) ==
    LET parts == Split(s, sep)
    IN  SelectSeq([i \in DOMAIN parts |-> strip(parts[i])], LAMBDA piece : piece # "")

\* a block "selectors { declarations" of the text (its closing brace taken off):
\* the selectors the commas part and the declarations the semicolons part
BlockOf(piece) ==
    LET opening == RunEnd(piece, 0, LAMBDA c : c # "{")
    IN  [selectors |-> Pieces(SubSeq(piece, 1, opening), ","),
         declarations |-> Pieces(SubSeq(piece, opening + 2, Len(piece)), ";")]

\* the blocks of a compiled text, in its order
Blocks(css) ==
    LET pieces == Pieces(css, "}")
    IN  [i \in DOMAIN pieces |-> BlockOf(pieces[i])]

\* --- reading the AST ---

\* a style and the styles nested in it, in source order, each with the selector
\* groups around it (outermost first, its own last) as lists of single selectors
RECURSIVE StyleList(_, _)
RECURSIVE StyleLists(_, _)
StyleList(style, chain) ==
    LET here == Append(chain, style.selector_node.single_selector_nodes)
    IN  <<[style |-> style, chain |-> here]>>
            \o StyleLists(style.style_body_node.children_style_nodes, here)

StyleLists(styles, chain) ==
    IF styles = <<>> THEN <<>>
    ELSE StyleList(Head(styles), chain) \o StyleLists(Tail(styles), chain)

\* the styles compile_css emits: the statements that are styles, and their nested ones
EmittedList(root_node) ==
    StyleLists(SelectSeq(root_node.statements, LAMBDA stmt : stmt.kind = "StyleNode"), <<>>)

EmittedStyles(root_node) == Range(EmittedList(root_node))

SingleCss(single, minified) ==
    IF minified THEN SingleSelectorNode_parse_min_css(single)
    ELSE SingleSelectorNode_parse_css(single)

\* N1 * ... * Nk * M
RECURSIVE Product(_)
Product(chain) ==
    IF chain = <<>> THEN 1 ELSE Len(Head(chain)) * Product(Tail(chain))

\* one single selector picked in each group of the chain
Choices(chain) ==
    {f \in [DOMAIN chain -> UNION {DOMAIN chain[d] : d \in DOMAIN chain}] :
        \A d \in DOMAIN chain : f[d] \in DOMAIN chain[d]}

\* the picked single selectors from the outermost to the innermost: one space
\* before each but the first, none before one that starts with a combinator glyph
RECURSIVE Combination(_, _, _)
Combination(chain, f, minified) ==
    LET child == SingleCss(chain[Len(chain)][f[Len(chain)]], minified)
    IN  IF Len(chain) = 1 THEN child
        ELSE Combination(SubSeq(chain, 1, Len(chain) - 1), f, minified)
                 \o (IF Char(child, 0) \in {"+", "~", ">"} THEN "" ELSE " ")
                 \o child

Combinations(chain, minified) == {Combination(chain, f, minified) : f \in Choices(chain)}

\* C2: selector expansion is a Cartesian product.  In a text compile_css returned,
\* each emitted style, nested in groups of N1, ..., Nk single selectors and with M
\* of its own, has a block of exactly N1 * ... * Nk * M selectors, one for each
\* combination of an enclosing selector per level (outermost first) and a selector
\* of its own; a style with no enclosing group has exactly its own single
\* selectors; and the text has no other block.
C2_CartesianExpansion ==
    \A minified \in BOOLEAN :
        last[minified].status = "ok" =>
            LET blocks == Blocks(last[minified].value)
            IN  /\ Len(blocks) = Len(EmittedList(root))
                /\ \A e \in EmittedStyles(root) :
                       \E i \in DOMAIN blocks :
                           /\ Len(blocks[i].selectors) = Product(e.chain)
                           /\ Range(blocks[i].selectors) = Combinations(e.chain, minified)
                           /\ Len(e.chain) = 1 =>
                                  blocks[i].selectors =
                                      [k \in DOMAIN e.chain[1] |-> SingleCss(e.chain[1][k], minified)]

\* both modes have compiled a style nested two deep in groups of two and three
\* single selectors with two of its own: twelve selectors
C2_Witness ==
    /\ \A minified \in BOOLEAN : last[minified].status = "ok"
    /\ \E e \in EmittedStyles(root) :
           /\ Len(e.chain) >= 3
           /\ Product(e.chain) >= 12
           /\ \E i \in DOMAIN Blocks(last[TRUE].value) :
                  Len(Blocks(last[TRUE].value)[i].selectors) >= 12

\* the combination as C3 words it: a child that starts with a combinator glyph is
\* joined through the glyph, one space on each side of it in pretty mode and none
\* in minified mode; any other child is joined by one space
RECURSIVE ClaimedCombination(_, _, _)
ClaimedCombination(chain, f, minified) ==
    LET child == SingleCss(chain[Len(chain)][f[Len(chain)]], minified)
        parent == ClaimedCombination(SubSeq(chain, 1, Len(chain) - 1), f, minified)
    IN  IF Len(chain) = 1 THEN child
        ELSE IF Char(child, 0) \in {"+", "~", ">"}
        THEN parent \o (IF minified THEN Char(child, 0) ELSE " " \o Char(child, 0) \o " ")
                 \o lstrip(SubSeq(child, 2, Len(child)))
        ELSE parent \o " " \o child

ClaimedCombinations(chain, minified) ==
    {ClaimedCombination(chain, f, minified) : f \in Choices(chain)}

\* the nested single selectors of a chain that start with a combinator glyph
StartsWithGlyph(single) == single.parent_combinator # None

\* C3: the selectors of every emitted nested style are the combinations joined as
\* C3 words it: "parent > child" in pretty mode and "parent>child" in minified
\* mode when the child starts with a glyph, "parent child" in both modes when it
\* does not.
C3_GlyphSpacing ==
    \A minified \in BOOLEAN :
        last[minified].status = "ok" =>
            \A e \in EmittedStyles(root) :
                \E i \in DOMAIN Blocks(last[minified].value) :
                    Range(Blocks(last[minified].value)[i].selectors)
                        = ClaimedCombinations(e.chain, minified)

\* pretty mode has compiled a nested style whose selector starts with a glyph, and
\* its block joins parent and child with no space around the glyph
C3_Witness ==
    /\ last[FALSE].status = "ok"
    /\ \E e \in EmittedStyles(root) :
           /\ Len(e.chain) = 2
           /\ \A k \in DOMAIN e.chain[2] : StartsWithGlyph(e.chain[2][k])
           /\ Combinations(e.chain, FALSE) # ClaimedCombinations(e.chain, FALSE)
           /\ \E i \in DOMAIN Blocks(last[FALSE].value) :
                  Range(Blocks(last[FALSE].value)[i].selectors) = Combinations(e.chain, FALSE)

\* how many times x is in the list, and the list as a multiset
Count(list, x) == Cardinality({i \in DOMAIN list : list[i] = x})

BagOf(list) == [x \in Range(list) |-> Count(list, x)]

\* a declaration of the text as <<name, value>>, whatever white space is around them
DeclarationOf(piece) ==
    LET colon == RunEnd(piece, 0, LAMBDA c : c # ":")
    IN  <<strip(SubSeq(piece, 1, colon)), strip(SubSeq(piece, colon + 2, Len(piece)))>>

DeclarationsOf(block) ==
    [i \in DOMAIN block.declarations |-> DeclarationOf(block.declarations[i])]

\* the top-level properties of a style body as <<name, value>>
PropertiesOf(style_body_node) ==
    [i \in DOMAIN style_body_node.property_nodes |->
        <<style_body_node.property_nodes[i].property_token.value,
          style_body_node.property_nodes[i].property_value_token.value>>]

MixinDefs(root_node) ==
    SelectSeq(root_node.statements, LAMBDA stmt : stmt.kind = "MixinDefNode")

MixinNames(root_node) ==
    {MixinDefs(root_node)[i].symbol.value : i \in DOMAIN MixinDefs(root_node)}

\* the names after "using", in order
UsedMixins(style) ==
    IF style.mixin_list = None THEN <<>>
    ELSE [i \in DOMAIN style.mixin_list.identifiers |-> style.mixin_list.identifiers[i].value]

\* the definition of the mixin of that name, wherever it is in the source
MixinNamed(root_node, name) ==
    MixinDefs(root_node)[CHOOSE i \in DOMAIN MixinDefs(root_node) :
                             MixinDefs(root_node)[i].symbol.value = name]

\* a style's own properties and the top-level ones of each mixin it names
ExpectedDeclarations(style, root_node) ==
    PropertiesOf(style.style_body_node)
        \o Flatten([i \in DOMAIN UsedMixins(style) |->
                       PropertiesOf(MixinNamed(root_node, UsedMixins(style)[i]).style_body_node)])

\* C4: in a text compile_css returned, the blocks are those of the emitted styles
\* (the statements that are styles and the styles nested in them; a style nested
\* in a mixin body has no block), and the declarations of each block are, as a
\* multiset, the style's own properties plus the top-level properties of every
\* mixin its using list names, as often as it names it, wherever the mixin is
\* defined.
C4_BlockDeclarations ==
    \A minified \in BOOLEAN :
        last[minified].status = "ok" =>
            LET blocks == Blocks(last[minified].value)
                emitted == EmittedList(root)
            IN  BagOf([i \in DOMAIN blocks |->
                          [selectors |-> Range(blocks[i].selectors),
                           declarations |-> BagOf(DeclarationsOf(blocks[i]))]])
                = BagOf([i \in DOMAIN emitted |->
                            [selectors |-> Combinations(emitted[i].chain, minified),
                             declarations |->
                                 BagOf(ExpectedDeclarations(emitted[i].style, root))]])

\* both modes have compiled a program in which a style names, twice over, a mixin
\* defined after it, and a style names a mixin whose body nests a style
C4_Witness ==
    /\ \A minified \in BOOLEAN : last[minified].status = "ok"
    /\ \E i, j \in DOMAIN root.statements :
           /\ i < j
           /\ root.statements[i].kind = "StyleNode"
           /\ root.statements[j].kind = "MixinDefNode"
           /\ root.statements[j].style_body_node.children_style_nodes # <<>>
           /\ root.statements[j].symbol.value \in Range(UsedMixins(root.statements[i]))
    /\ \E e \in EmittedStyles(root) :
           \E name \in Range(UsedMixins(e.style)) :
               /\ Count(UsedMixins(e.style), name) = 2
               /\ PropertiesOf(MixinNamed(root, name).style_body_node) # <<>>

\* the styles written in mixin bodies, nested ones included
MixinStyles(root_node) ==
    UNION {EmittedStyles([statements |-> MixinDefs(root_node)[i].style_body_node.children_style_nodes]) :
               i \in DOMAIN MixinDefs(root_node)}

\* the style names, after "using", a mixin the program does not define
UsesUndefinedMixin(style, root_node) ==
    \E name \in Range(UsedMixins(style)) : name \notin MixinNames(root_node)

\* C5: when any style of the AST, a statement, a style nested in a style at any
\* depth or a style written in a mixin body, names an undefined mixin after
\* "using", every compile_css call, in either mode, fails and returns no text.
C5_UndefinedMixinFails ==
    \A minified \in BOOLEAN :
        (/\ Called(minified)
         /\ \E e \in EmittedStyles(root) \cup MixinStyles(root) :
                UsesUndefinedMixin(e.style, root))
            => last[minified].status = "error" /\ last[minified].value = NoValue

\* both modes have returned text for a program in which a style of a mixin body
\* names an undefined mixin
C5_Witness ==
    /\ \A minified \in BOOLEAN : last[minified].status = "ok"
    /\ last[TRUE].value # ""
    /\ \E e \in MixinStyles(root) : UsesUndefinedMixin(e.style, root)

\* C5, for the styles compile_css emits only (statements and the styles nested in
\* them): one of them naming an undefined mixin makes every call fail with no text.
C5_EmittedUndefinedMixinFails ==
    \A minified \in BOOLEAN :
        (/\ Called(minified)
         /\ \E e \in EmittedStyles(root) : UsesUndefinedMixin(e.style, root))
            => last[minified].status = "error" /\ last[minified].value = NoValue

\* statement j defines, as a mixin or as an alias, a name that an earlier
\* statement of the same kind defines
IsDuplicate(root_node, j) ==
    /\ root_node.statements[j].kind \in {"MixinDefNode", "AliasDefNode"}
    /\ \E i \in 1..(j - 1) :
           /\ root_node.statements[i].kind = root_node.statements[j].kind
           /\ root_node.statements[i].symbol.value = root_node.statements[j].symbol.value

HasDuplicate(root_node) == \E j \in DOMAIN root_node.statements : IsDuplicate(root_node, j)

\* the names the statements before the first duplicate define with this kind of node
CollectedBeforeDuplicate(root_node, kind) ==
    {root_node.statements[i].symbol.value :
         i \in {k \in DOMAIN root_node.statements :
                    /\ root_node.statements[k].kind = kind
                    /\ \A j \in 1..k : ~IsDuplicate(root_node, j)}}

\* C6: when two mixin definitions, or two alias definitions, share a name, every
\* compile_css call fails with the ValueError of symbol collection and returns no
\* text, whatever else is wrong in the program (an undefined mixin in use too);
\* collection has stopped at the second definition, so the tables hold the names
\* defined before it and nothing has been emitted.
C6_DuplicateFailsInPassOne ==
    (calls > 0 /\ HasDuplicate(root)) =>
        /\ \A minified \in BOOLEAN : Called(minified) => last[minified] = Raised("ValueError")
        /\ DOMAIN mixin_table = CollectedBeforeDuplicate(root, "MixinDefNode")
        /\ DOMAIN alias_table = CollectedBeforeDuplicate(root, "AliasDefNode")

\* both modes have been called on a program that defines a mixin twice and has a
\* style naming an undefined mixin
C6_Witness ==
    /\ \A minified \in BOOLEAN : Called(minified)
    /\ \E j \in DOMAIN root.statements :
           IsDuplicate(root, j) /\ root.statements[j].kind = "MixinDefNode"
    /\ \E e \in EmittedStyles(root) : UsesUndefinedMixin(e.style, root)

AliasDefs(root_node) ==
    SelectSeq(root_node.statements, LAMBDA stmt : stmt.kind = "AliasDefNode")

AliasNames(root_node) ==
    {AliasDefs(root_node)[i].symbol.value : i \in DOMAIN AliasDefs(root_node)}

AliasNamed(root_node, name) ==
    AliasDefs(root_node)[CHOOSE i \in DOMAIN AliasDefs(root_node) :
                             AliasDefs(root_node)[i].symbol.value = name]

\* the selector of the node is one name and nothing else
IsName(selector_node) ==
    /\ Len(selector_node.single_selector_nodes) = 1
    /\ selector_node.single_selector_nodes[1].parent_combinator = None
    /\ selector_node.single_selector_nodes[1].combinator_selector_list = <<>>
    /\ selector_node.single_selector_nodes[1].pseudo_element_node = None
    /\ selector_node.single_selector_nodes[1].first_selector_sequence_node.attribute_selectors = <<>>
    /\ selector_node.single_selector_nodes[1].first_selector_sequence_node.pseudo_class_nodes = <<>>
    /\ Len(selector_node.single_selector_nodes[1].first_selector_sequence_node.sequence) = 1

NameOf(selector_node) ==
    selector_node.single_selector_nodes[1].first_selector_sequence_node.sequence[1].value

\* statement i is a style (with no style nested in it) whose selector is the name
\* of an alias that an earlier statement defines
IsAliasedStyle(root_node, i) ==
    /\ root_node.statements[i].kind = "StyleNode"
    /\ root_node.statements[i].style_body_node.children_style_nodes = <<>>
    /\ IsName(root_node.statements[i].selector_node)
    /\ \E j \in 1..(i - 1) :
           /\ root_node.statements[j].kind = "AliasDefNode"
           /\ root_node.statements[j].symbol.value = NameOf(root_node.statements[i].selector_node)

\* the AST with the aliased selector group written in place of the name
Substituted(root_node) ==
    [root_node EXCEPT !.statements =
        [i \in DOMAIN root_node.statements |->
            IF IsAliasedStyle(root_node, i)
            THEN [root_node.statements[i] EXCEPT !.selector_node =
                     AliasNamed(root_node, NameOf(@)).selector_node]
            ELSE root_node.statements[i]]]

\* the alias names of a token list: the token between "alias" and "as"
DefinedAliasNames(toks) ==
    {toks[k + 1].value : k \in {j \in 1..(Len(toks) - 2) :
                                   toks[j].type = "ALIAS" /\ toks[j + 2].type = "AS"}}

\* the parser has come to rest on a style "NAME {" whose name is that of an alias
\* defined before it
RestsOnAliasedStyle(toks, index) ==
    /\ index + 2 <= Len(toks)
    /\ toks[index + 1].value \in DefinedAliasNames(SubSeq(toks, 1, index))
    /\ toks[index + 2].type = "CURLY_L"

\* C7: a style whose selector is the name of an alias compiles to what the same
\* style compiles to with the aliased selector group in place of the name: the
\* parser does not stop on such a style, and every compile_css call returns what it
\* returns on the AST with the group substituted.
C7_AliasAsSelector ==
    /\ pc \in {"parse_hang", "parse_error"} =>
           ~RestsOnAliasedStyle(tokens, Parser_parse(tokens).index)
    /\ (calls > 0 /\ ~HasDuplicate(root)) =>
           \A minified \in BOOLEAN :
               Called(minified) =>
                   last[minified]
                       = Compiler_compile_css(Compiler_init, Substituted(root), minified).result

\* both modes have returned text for a program with an alias and a style whose
\* selector is its name, and the text is not that of the aliased selector group
C7_Witness ==
    /\ \A minified \in BOOLEAN : last[minified].status = "ok"
    /\ \E i \in DOMAIN root.statements : IsAliasedStyle(root, i)
    /\ \A minified \in BOOLEAN :
           Compiler_compile_css(Compiler_init, Substituted(root), minified).result.status = "ok"
    /\ \A minified \in BOOLEAN :
           last[minified] # Compiler_compile_css(Compiler_init, Substituted(root), minified).result

\* token i is an identifier that stands as the whole selector of a style ("NAME {"
\* where a statement or a nested style begins) and is no alias the program defines
IsUndefinedAliasReference(toks, i) ==
    /\ toks[i].type = "IDENTIFIER"
    /\ toks[i].value \notin DefinedAliasNames(toks)
    /\ i + 1 <= Len(toks) /\ toks[i + 1].type = "CURLY_L"
    /\ i = 1 \/ toks[i - 1].type \in {"CURLY_L", "CURLY_R", "LINE_END"}

HasUndefinedAliasReference(toks) ==
    \E i \in DOMAIN toks : IsUndefinedAliasReference(toks, i)

\* C8: a program that references an alias name no alias definition gives is never
\* compiled to text, and the run ends in an error: the parser raises, or every
\* compile_css call raises; it does not go on for ever.
C8_UndefinedAliasFails ==
    (pc \notin {"source", "lexed"} /\ HasUndefinedAliasReference(tokens)) =>
        /\ pc # "parse_hang"
        /\ \A minified \in BOOLEAN : Called(minified) => last[minified].status = "error"

\* the parser has come to rest, for ever, on the reference to an undefined alias
C8_Witness ==
    /\ pc = "parse_hang"
    /\ Parser_parse(tokens).index < Len(tokens)
    /\ IsUndefinedAliasReference(tokens, Parser_parse(tokens).index + 1)

\* the space at index i of a selector is an insignificant separator: it is next to
\* a combinator glyph or to an attribute operator
IsSeparatorSpace(s, i) ==
    /\ Char(s, i) = " "
    /\ \/ Char(s, i - 1) \in {"+", "~", ">", "="}
       \/ Char(s, i + 1) \in {"+", "~", ">", "="}
       \/ (Char(s, i + 1) \in {"*", "|", "^", "$"} /\ Char(s, i + 2) = "=")

RECURSIVE CharsAt(_, _)
CharsAt(s, indexes) ==
    IF indexes = <<>> THEN "" ELSE Char(s, Head(indexes)) \o CharsAt(s, Tail(indexes))

\* the selector without its insignificant separators
Significant(s) ==
    CharsAt(s, SelectSeq([i \in 1..Len(s) |-> i - 1], LAMBDA i : ~IsSeparatorSpace(s, i)))

\* the blocks of a compiled text, separators apart: the selectors of each in
\* order, and its (name, value) declarations as a multiset
NormalBlocks(css) ==
    LET blocks == Blocks(css)
    IN  [i \in DOMAIN blocks |->
            [selectors |-> [k \in DOMAIN blocks[i].selectors |->
                               Significant(blocks[i].selectors[k])],
             declarations |-> BagOf(DeclarationsOf(blocks[i]))]]

AllSelectors(blocks) == UNION {Range(blocks[i].selectors) : i \in DOMAIN blocks}

AllDeclarations(blocks) == UNION {DOMAIN blocks[i].declarations : i \in DOMAIN blocks}

\* C9: when both modes return text for an AST, the two texts hold the same set of
\* selector strings and the same set of (name, value) pairs once the insignificant
\* separators are taken out, and block by block the same selectors with the same
\* declarations: only separators differ.
C9_ModesAgree ==
    (last[TRUE].status = "ok" /\ last[FALSE].status = "ok") =>
        LET minified == NormalBlocks(last[TRUE].value)
            pretty == NormalBlocks(last[FALSE].value)
        IN  /\ AllSelectors(minified) = AllSelectors(pretty)
            /\ AllDeclarations(minified) = AllDeclarations(pretty)
            /\ BagOf(minified) = BagOf(pretty)

\* both modes have returned text with declarations, and two pretty selectors of a
\* block (one with a combinator, one with an attribute operator) have spaces that
\* the minified ones have not
C9_Witness ==
    /\ last[TRUE].status = "ok" /\ last[FALSE].status = "ok"
    /\ AllDeclarations(NormalBlocks(last[FALSE].value)) # {}
    /\ \E i \in DOMAIN Blocks(last[FALSE].value) :
           \E k, n \in DOMAIN Blocks(last[FALSE].value)[i].selectors :
               /\ k # n
               /\ \A selector \in {Blocks(last[FALSE].value)[i].selectors[k],
                                    Blocks(last[FALSE].value)[i].selectors[n]} :
                      /\ Len(Significant(selector)) + 2 <= Len(selector)
                      /\ Significant(selector) \in AllSelectors(Blocks(last[TRUE].value))

\* the indexes at which the white space runs of a text start
RunStarts(s) ==
    {i \in 0..(Len(s) - 1) : isspace(Char(s, i)) /\ (i = 0 \/ ~isspace(Char(s, i - 1)))}

\* the tokens as scanned, before the filter, EOF last
Scanned(s) == Lexer_scan(Lexer_init(s, TRUE)).tokens

\* the runs with a token scanned before them (the others are at the source start)
RunsAfterAToken(s) == {i \in RunStarts(s) : Len(Scanned(SubSeq(s, 1, i))) > 1}

SpacesOf(toks) == {k \in DOMAIN toks : toks[k].type = "SPACE"}

\* the scanned tokens that stay: all but the SPACE tokens, and a SPACE token when
\* the one before it can end a compound selector and the one after it start one
StayingIndexes(raw) ==
    {k \in DOMAIN raw :
         raw[k].type = "SPACE" =>
             /\ 1 < k /\ k < Len(raw)
             /\ raw[k - 1].type \in {"HTML_ELEMENT", "IDENTIFIER", "STAR", "SQUARE_R"}
             /\ raw[k + 1].type \in {"CLASS_PREFIX", "ID_PREFIX", "HTML_ELEMENT", "STAR"}}

\* the k-th least member of a set of numbers
Nth(S, k) == CHOOSE i \in S : Cardinality({j \in S : j < i}) = k - 1

\* C10: white space significance.  Each white space run of the source that is not
\* at its start is scanned as one SPACE token; in the token sequence the lexer
\* returns that token is present exactly when the token scanned just before the
\* run is HTML_ELEMENT, IDENTIFIER, STAR or "]" and the token scanned just after it
\* is ".", "#", HTML_ELEMENT or STAR (the SPACE token of another run, when only
\* characters that give no token part the two runs, is neither); all other
\* tokens are returned unchanged and in order; so the two sources of
\* test_selector_combinators compile to "div>div>p{}" and
\* "div~.my-class p>h2+#test{}".
C10_SpaceSignificance ==
    /\ pc \notin {"source", "lex_error"} =>
           /\ Cardinality(SpacesOf(Scanned(text))) = Cardinality(RunsAfterAToken(text))
           /\ tokens = [k \in 1..Cardinality(StayingIndexes(Scanned(text))) |->
                           Scanned(text)[Nth(StayingIndexes(Scanned(text)), k)]]
           /\ \A k \in SpacesOf(tokens) :
                  /\ 1 < k /\ k < Len(tokens)
                  /\ tokens[k - 1].type \in {"HTML_ELEMENT", "IDENTIFIER", "STAR", "SQUARE_R"}
                  /\ tokens[k + 1].type \in {"CLASS_PREFIX", "ID_PREFIX", "HTML_ELEMENT", "STAR"}
    /\ (text = "div> div  >p  {  }" /\ Called(TRUE)) => last[TRUE] = Returned("div>div>p{}")
    /\ (text = "div ~ . my-class p> h2 +#test {}" /\ Called(TRUE)) =>
           last[TRUE] = Returned("div~.my-class p>h2+#test{}")

\* the second source has been compiled: of its seven white space runs one, between
\* "my-class" and "p", has left a SPACE token
C10_Witness ==
    /\ text = "div ~ . my-class p> h2 +#test {}"
    /\ last[TRUE] = Returned("div~.my-class p>h2+#test{}")
    /\ Cardinality(RunStarts(text)) = 7
    /\ Cardinality(SpacesOf(Scanned(text))) = 7
    /\ Cardinality(SpacesOf(tokens)) = 1

\* --- selector lists ---

\* the single selectors as they can be written
WrittenSingles == {single[1] : single \in Singles}

\* the minified rendering of a single selector written that way
MinifiedSingle(written) == (CHOOSE single \in Singles : single[1] = written)[2]

\* the source is one style with an empty body whose selector list is made of the
\* single selectors above
IsSelectorList(source) ==
    LET block == BlockOf(source)
    IN  /\ block.declarations = <<"}">>
        /\ block.selectors # <<>>
        /\ \A i \in DOMAIN block.selectors : block.selectors[i] \in WrittenSingles

\* C11: a comma-separated selector list compiles, minified, to its single
\* selectors in the order they were written, with a bare comma between them: no
\* white space written around a comma is left and no selector changes place;
\* the list of TestCompiler.test_selector_list compiles to the text it expects.
C11_SelectorListOrder ==
    Called(TRUE) =>
        /\ text = ".my-class,  #my-id    ,   h3,h1{}"
               => last[TRUE] = Returned(".my-class,#my-id,h3,h1{}")
        /\ IsSelectorList(text) =>
               LET written == BlockOf(text).selectors
               IN  last[TRUE] = Returned(
                       join(",", [i \in DOMAIN written |-> MinifiedSingle(written[i])])
                           \o "{}")

\* a list of three single selectors that are not in lexicographic order, written
\* with white space on both sides of its commas, has been compiled minified
C11_Witness ==
    /\ Called(TRUE)
    /\ last[TRUE].status = "ok"
    /\ IsSelectorList(text)
    /\ LET written == BlockOf(text).selectors
       IN  /\ Len(written) = 3
           /\ str_less(written[2], written[1])
           /\ str_less(written[3], written[2])
    /\ \E i \in 1..(Len(text) - 2) : SubSeq(text, i, i + 2) = " , "

\* --- pseudo-elements ---

\* C12: a single selector that goes on, after its pseudo-element, with a
\* combinator and a compound selector is parsed, and compiles minified with the
\* pseudo-element where it was written: the source of
\* TestCompiler.test_pseudo_class_and_element gives the text the test expects,
\* and so does div::before followed by each combinator and p.
C12_PseudoElementInPlace ==
    /\ text = "a:first-child div::before>#testing {}" =>
           /\ pc \notin {"parse_error", "parse_hang"}
           /\ Called(TRUE) => last[TRUE] = Returned("a:first-child div::before>#testing{}")
    /\ \A combinator \in PseudoCombinators :
           text = Continued(combinator[1]) \o " { }" =>
               /\ pc \notin {"parse_error", "parse_hang"}
               /\ Called(TRUE) => last[TRUE] = Returned(Continued(combinator[2]) \o "{}")

\* the parser has been run on the source of the test
C12_Witness ==
    /\ text = "a:first-child div::before>#testing {}"
    /\ pc \notin {"source", "lexed"}

\* --- attribute selectors ---

\* a value as the minified text writes it: a string between double quotes, a
\* bare identifier as it is
RenderedValue(value) ==
    IF value \in BareValues THEN value
    ELSE "\"" \o SubSeq(value, 2, Len(value) - 1) \o "\""

Accepted == pc \notin {"lex_error", "parse_error", "parse_hang"}

\* the attribute selectors with these names and values are accepted, and render
\* minified without white space
AttributeSelectorsRender(names, values) ==
    /\ \A name \in names, padding \in AttributePaddings :
           text = "a[" \o padding \o name \o padding \o "] { }" =>
               /\ Accepted
               /\ Called(TRUE) => last[TRUE] = Returned("a[" \o name \o "]{}")
    /\ \A name \in names, op \in AttributeOperators, value \in values,
          padding \in AttributePaddings :
           text = "a[" \o name \o padding \o op \o padding \o value \o "] { }" =>
               /\ Accepted
               /\ Called(TRUE) =>
                      last[TRUE] = Returned("a[" \o name \o op \o RenderedValue(value) \o "]{}")

\* C13: [name] and [name op value] are accepted by the parser for every
\* identifier-shaped name, each of the six operators and every value that is a
\* quoted string or a bare identifier, names and bare values that are element
\* names, property names (or keywords) included; minified they are [name] and
\* [name op value] without white space, a string between double quotes and a
\* bare identifier unquoted.
C13_AttributeSelectors ==
    AttributeSelectorsRender(AttributeNames, BareValues \cup QuotedValues)

\* the same for the names and bare values the lexer makes IDENTIFIER tokens of
C13_PlainAttributeSelectors ==
    AttributeSelectorsRender({"x", "data-id"}, {"y"} \cup QuotedValues)

\* the parser has been run on an attribute selector whose name is a property
\* name and whose bare value is an element name
C13_Witness ==
    /\ text = "a[color=h1] { }"
    /\ pc \notin {"source", "lexed"}

\* --- the parser ---

\* C14: on every token sequence that ends with EOF, parse() comes to an end: it
\* returns a RootNode with every token before EOF consumed, or it raises the
\* error that names the expected types and the token met.  A token that cannot
\* start a statement at root level, or an entry of a style body, is such an
\* error, never a loop that no branch leaves.
C14_ParserTerminates ==
    pc \notin {"source", "lexed", "lex_error"} =>
        /\ pc # "parse_hang"
        /\ LET parser == Parser_parse(tokens)
           IN  \/ /\ parser.status = "ok"
                  /\ parser.node.kind = "RootNode"
                  /\ parser.index = Len(tokens) - 1
               \/ /\ parser.status = "error"
                  /\ parser.expected # {}
                  /\ parser.got # None

\* parse() has been called on a style body that ends with EOF
C14_Witness ==
    /\ pc \notin {"source", "lexed"}
    /\ [i \in DOMAIN tokens |-> tokens[i].type] = <<"HTML_ELEMENT", "CURLY_L", "EOF">>

\* parse() only ever raises the error that names what it expected and what it met,
\* and when it returns every token before EOF is consumed
C14_ReturnsOrNamesTheToken ==
    pc \in {"parsed", "parse_error", "compiler"} =>
        LET parser == Parser_parse(tokens)
        IN  \/ /\ parser.status = "ok"
               /\ parser.node.kind = "RootNode"
               /\ parser.index = Len(tokens) - 1
            \/ /\ parser.status = "error"
               /\ parser.expected # {}
               /\ parser.got # None

\* --- the lexer ---

\* the lexer after k passes of the loop of _parse_next_token
Passes(source, k) == Lexer_next_token_steps(Lexer_init(source, TRUE), k)

\* a pass that starts inside the text either raises or leaves the index further on
EveryPassAdvances(source) ==
    \A k \in 0..Len(source) :
        LET before == Passes(source, k)
            after == Lexer_next_token_step(before)
        IN  (~before.failed /\ before.index < Len(source)) =>
                after.failed \/ after.index > before.index

EofCount(toks) == Cardinality({i \in DOMAIN toks : toks[i].type = "EOF"})

\* C15: on a text the lexer does not fail on, every pass of the scanning loop
\* moves on, so lexing ends; the tokens returned with keep_eof true hold exactly
\* one EOF token, the last one; those returned with keep_eof false hold none;
\* and the first list is the second with EOF appended.  The lexer fails with
\* keep_eof true exactly when it fails with keep_eof false.
C15_OneEofLast ==
    /\ pc \in {"lexed", "lexed_no_eof"} => EveryPassAdvances(text)
    /\ pc = "lexed" =>
           /\ EofCount(tokens) = 1
           /\ tokens[Len(tokens)].type = "EOF"
           /\ ~Lexer(text, FALSE).failed
           /\ Lexer(text, FALSE).tokens = SubSeq(tokens, 1, Len(tokens) - 1)
    /\ pc = "lexed_no_eof" =>
           /\ EofCount(tokens) = 0
           /\ ~Lexer(text, TRUE).failed
           /\ Lexer(text, TRUE).tokens = Append(tokens, Token("EOF", NoValue, NoPos, NoPos))
    /\ pc = "lex_error" => Lexer(text, TRUE).failed /\ Lexer(text, FALSE).failed

\* a text that ends in white space was lexed with keep_eof false into two tokens
\* and more
C15_Witness ==
    /\ pc = "lexed_no_eof"
    /\ Len(tokens) >= 2
    /\ Len(text) > 0
    /\ isspace(Char(text, Len(text) - 1))

\* --- property values ---

\* a ':' at index i (zero-based) of the source is scanned as SINGLE_COLON right
\* after a CSS_PROPERTY token: it is not half of "::", and the source before it
\* scans, without a failure, into tokens the last of which is CSS_PROPERTY
IsValueColon(source, i) ==
    /\ Char(source, i) = ":"
    /\ Char(source, i + 1) # ":"
    /\ LET before == Lexer_scan(Lexer_init(SubSeq(source, 1, i), TRUE))
       IN  /\ ~before.failed
           /\ Len(before.tokens) >= 2
           /\ before.tokens[Len(before.tokens) - 1].type = "CSS_PROPERTY"

ValueColons(source) == {i \in 0..(Len(source) - 1) : IsValueColon(source, i)}

\* where the value after the ':' at index i ends: the index of the next ';', '}'
\* or newline, or the length of the source
ValueEnd(source, i) ==
    CHOOSE j \in (i + 1)..Len(source) :
        /\ j = Len(source) \/ Char(source, j) \in {";", "}", "\n"}
        /\ \A k \in (i + 1)..(j - 1) : Char(source, k) \notin {";", "}", "\n"}

\* the type of the token the character that ends a value gives
EndType(c) ==
    IF c = ";" THEN "LINE_END"
    ELSE IF c = "}" THEN "CURLY_R"
    ELSE IF c = "\n" THEN "SPACE"
    ELSE "EOF"

ValueIndexes(toks) == {j \in DOMAIN toks : toks[j].type = "CSS_PROPERTY_VALUE"}

\* the tokens hold one CSS_PROPERTY_VALUE for each such ':' of the source, in
\* order; each one comes right after CSS_PROPERTY and SINGLE_COLON, holds the
\* trimmed text up to the end of the value, and is followed by the token of the
\* character that ended the value (unfiltered: EOF or SPACE for the end of the
\* source or a newline; filtered, the SPACE may be gone)
ValuesAsScanned(source, toks, filtered) ==
    /\ Cardinality(ValueIndexes(toks)) = Cardinality(ValueColons(source))
    /\ \A m \in 1..Cardinality(ValueColons(source)) :
           LET i == Nth(ValueColons(source), m)
               j == Nth(ValueIndexes(toks), m)
               end == ValueEnd(source, i)
           IN  /\ j >= 3
               /\ toks[j - 2].type = "CSS_PROPERTY"
               /\ toks[j - 1].type = "SINGLE_COLON"
               /\ toks[j].value = strip(SubSeq(source, i + 2, end))
               /\ j < Len(toks)
               /\ toks[j + 1].type # "CSS_PROPERTY_VALUE"
               /\ (~filtered \/ Char(source, end) \in {";", "}"})
                      => toks[j + 1].type = EndType(Char(source, end))

\* C16: when ':' is lexed right after a CSS_PROPERTY token, SINGLE_COLON is
\* followed by exactly one CSS_PROPERTY_VALUE token: the source text from after
\* the colon up to, not including, the next ';', '}', newline or the end of the
\* input, trimmed of the white space around it; the ';' or '}' that ends the
\* value is the next token.  No other token is a CSS_PROPERTY_VALUE.
\* "border: 1px solid blue" gives CSS_PROPERTY border, SINGLE_COLON,
\* CSS_PROPERTY_VALUE "1px solid blue".
C16_PropertyValue ==
    pc = "lexed" =>
        /\ ValuesAsScanned(text, Scanned(text), FALSE)
        /\ ValuesAsScanned(text, tokens, TRUE)
        /\ text = "border: 1px solid blue" =>
               [k \in 1..3 |-> <<tokens[k].type, tokens[k].value>>]
                   = <<<<"CSS_PROPERTY", "border">>, <<"SINGLE_COLON", ":">>,
                       <<"CSS_PROPERTY_VALUE", "1px solid blue">>>>

\* a source with two declarations, the second value with white space around it
\* and ended by '}', has been lexed
C16_Witness ==
    /\ pc = "lexed"
    /\ Cardinality(ValueColons(text)) = 2
    /\ LET i == Nth(ValueColons(text), 2)
       IN  /\ Char(text, ValueEnd(text, i)) = "}"
           /\ isspace(Char(text, i + 1))
           /\ isspace(Char(text, ValueEnd(text, i) - 1))
           /\ strip(SubSeq(text, i + 2, ValueEnd(text, i))) # ""

\* --- the order of the output ---

\* no string of the list is before its predecessor
IsOrdered(list) == \A i \in 1..(Len(list) - 1) : ~str_less(list[i + 1], list[i])

\* the statements of the root that emit text
StyleStatements(root_node) ==
    SelectSeq(root_node.statements, LAMBDA stmt : stmt.kind = "StyleNode")

\* the text of one statement, with the tables the compiler holds
RenderedStatement(style, minified) ==
    IF minified
    THEN StyleNode_parse_min_css(
             style, [mixin_table |-> mixin_table, alias_table |-> alias_table]).value
    ELSE StyleNode_parse_css(
             style, [mixin_table |-> mixin_table, alias_table |-> alias_table]).value

\* the texts placed in that order
Placed(rendered, order) == [i \in DOMAIN rendered |-> rendered[order[i]]]

\* C17: in both modes, the declarations of every block of the output are in
\* lexicographic order of their text, wherever they were declared and whether
\* the style or a mixin supplied them; and the output is the texts of the root's
\* style statements in lexicographic order of those texts, joined by the
\* mode's separator.
C17_SortedDeclarationsAndStatements ==
    \A minified \in BOOLEAN :
        last[minified].status = "ok" =>
            LET blocks == Blocks(last[minified].value)
                statements == StyleStatements(root)
                rendered == [i \in DOMAIN statements |->
                                RenderedStatement(statements[i], minified)]
            IN  /\ \A i \in DOMAIN blocks : IsOrdered(blocks[i].declarations)
                /\ \E order \in Permutations(DOMAIN rendered) :
                       /\ IsOrdered(Placed(rendered, order))
                       /\ last[minified].value
                              = join(IF minified THEN "" ELSE "\n", Placed(rendered, order))

\* both modes have compiled a program whose second style statement comes first in
\* the output and whose first style has, in its block, a declaration of a mixin
\* between two of its own, its own not in the order they were declared in
C17_Witness ==
    /\ \A minified \in BOOLEAN : last[minified].status = "ok"
    /\ Len(StyleStatements(root)) = 2
    /\ str_less(RenderedStatement(StyleStatements(root)[2], TRUE),
                RenderedStatement(StyleStatements(root)[1], TRUE))
    /\ \E i \in DOMAIN Blocks(last[FALSE].value) :
           Blocks(last[FALSE].value)[i].declarations
               = <<"border: 0", "color: blue", "margin: 0", "margin: 0 auto">>

\* the selectors of a style in declaration order: its own single selectors as
\* written when no group encloses it; else, for each selector of the enclosing
\* style in that order, each of its own single selectors as written
RECURSIVE DeclaredSelectors(_, _)
DeclaredSelectors(chain, minified) ==
    LET own == chain[Len(chain)]
        enclosing == DeclaredSelectors(SubSeq(chain, 1, Len(chain) - 1), minified)
    IN  IF Len(chain) = 1 THEN [k \in DOMAIN own |-> SingleCss(own[k], minified)]
        ELSE [k \in 1..(Len(enclosing) * Len(own)) |->
                 enclosing[((k - 1) \div Len(own)) + 1]
                     \o (IF Char(SingleCss(own[((k - 1) % Len(own)) + 1], minified), 0)
                             \in {"+", "~", ">"}
                         THEN "" ELSE " ")
                     \o SingleCss(own[((k - 1) % Len(own)) + 1], minified)]

\* C18 as claimed: the selectors of every block of the output are in
\* lexicographic order of the selector strings, not in declaration order.
C18_SelectorsSorted ==
    \A minified \in BOOLEAN :
        last[minified].status = "ok" =>
            \A i \in DOMAIN Blocks(last[minified].value) :
                IsOrdered(Blocks(last[minified].value)[i].selectors)

\* C18 as amended: the selectors of every emitted style's block are in
\* declaration order and are not sorted: the style's single selectors in the
\* order written, under each selector of the enclosing style's block in that
\* block's order.
C18_SelectorsAsDeclared ==
    \A minified \in BOOLEAN :
        last[minified].status = "ok" =>
            LET blocks == Blocks(last[minified].value)
            IN  \A e \in EmittedStyles(root) :
                    \E i \in DOMAIN blocks :
                        blocks[i].selectors = DeclaredSelectors(e.chain, minified)

\* both modes have compiled a style nested in a group of two single selectors,
\* with three of its own, whose six selectors as declared are not in
\* lexicographic order
C18_Witness ==
    /\ \A minified \in BOOLEAN : last[minified].status = "ok"
    /\ \E e \in EmittedStyles(root) :
           /\ Len(e.chain) >= 2
           /\ Len(DeclaredSelectors(e.chain, TRUE)) >= 6
           /\ ~IsOrdered(DeclaredSelectors(e.chain, TRUE))
           /\ ~IsOrdered(DeclaredSelectors(e.chain, FALSE))
           /\ \E i \in DOMAIN Blocks(last[TRUE].value) :
                  Blocks(last[TRUE].value)[i].selectors = DeclaredSelectors(e.chain, TRUE)

\* the style of the second chain is a child of the style of the first
IsChildChain(chain, child_chain) ==
    /\ Len(child_chain) = Len(chain) + 1
    /\ SubSeq(child_chain, 1, Len(chain)) = chain

\* C19: in the output of every style that has nested child styles, in both
\* modes, the style's own block comes before the block of each of its children.
C19_OwnBlockFirst ==
    \A minified \in BOOLEAN :
        last[minified].status = "ok" =>
            LET blocks == Blocks(last[minified].value)
            IN  \A e \in EmittedStyles(root), child \in EmittedStyles(root) :
                    IsChildChain(e.chain, child.chain) =>
                        \E i \in DOMAIN blocks, j \in DOMAIN blocks :
                            /\ i < j
                            /\ blocks[i].selectors = DeclaredSelectors(e.chain, minified)
                            /\ blocks[j].selectors = DeclaredSelectors(child.chain, minified)

\* minified mode has compiled a style with a nested child, and the first block of
\* the text is the child's
C19_Witness ==
    /\ last[TRUE].status = "ok"
    /\ \E e \in EmittedStyles(root), child \in EmittedStyles(root) :
           /\ IsChildChain(e.chain, child.chain)
           /\ Len(e.chain) = 1
           /\ Blocks(last[TRUE].value)[1].selectors = DeclaredSelectors(child.chain, TRUE)

\* --- string literals ---

\* the quote at index i (zero-based) of the source opens a string literal: the
\* source before it scans without a failure, so the quote is in no earlier string,
\* and not into a property value that runs up to the quote
OpensString(source, i) ==
    /\ Char(source, i) \in {"\"", "'"}
    /\ LET before == Lexer_scan(Lexer_init(SubSeq(source, 1, i), TRUE))
       IN  /\ ~before.failed
           /\ Len(before.tokens) >= 2 =>
                  before.tokens[Len(before.tokens) - 1].type # "CSS_PROPERTY_VALUE"

\* ... and the same quote character does not come again after it
IsOpenString(source, i) ==
    /\ OpensString(source, i)
    /\ \A j \in (i + 1)..(Len(source) - 1) : Char(source, j) # Char(source, i)

\* C20: the lexer fails on a source exactly when scanning comes to the end of
\* the input inside a string literal, that is when a quote that opens a string
\* literal has no matching closing quote after it; every other source lexes,
\* whatever its characters.
C20_FailsOnOpenStringOnly ==
    pc # "source" =>
        (pc = "lex_error" <=> \E i \in 0..(Len(text) - 1) : IsOpenString(text, i))

\* the lexer has failed on a source in which a quote inside a property value
\* comes before the quote that opens the string left open
C20_Witness ==
    /\ pc = "lex_error"
    /\ \E i \in 0..(Len(text) - 1), j \in 0..(Len(text) - 1) :
           /\ i < j
           /\ Char(text, i) = Char(text, j)
           /\ Char(text, i) \in {"\"", "'"}
           /\ ~Lexer_scan(Lexer_init(SubSeq(text, 1, i), TRUE)).failed
           /\ ~OpensString(text, i)
           /\ IsOpenString(text, j)

\* --- token positions ---

\* the number of newline characters before index i (zero-based) of the source
LineOf(source, i) == Cardinality({j \in 0..(i - 1) : Char(source, j) = "\n"})

\* the number of characters between the start of the line of index i and index i
ColumnOf(source, i) ==
    Cardinality({j \in 0..(i - 1) : \A n \in j..(i - 1) : Char(source, n) # "\n"})

\* pass k + 1 of the scanning loop starts on the first character of a
\* punctuation or identifier token
StartsToken(source, k) ==
    LET before == Passes(source, k)
    IN  /\ ~before.failed
        /\ before.index < Len(source)
        /\ ~isspace(current_char(before))
        /\ ~is_string_start(current_char(before))
        /\ Len(Lexer_next_token_step(before).tokens) > Len(before.tokens)

\* the token that pass appends first, and the index of its first character
StartedToken(source, k) ==
    Lexer_next_token_step(Passes(source, k)).tokens[Len(Passes(source, k).tokens) + 1]

StartIndex(source, k) == Passes(source, k).index

\* C21: every punctuation or identifier token records as its line the number
\* of newline characters before its first character and as its column the number
\* of characters between the start of that line and its first character, so that
\* a token that starts a line has column 0 on every line.
C21_ZeroBasedPositions ==
    pc = "lexed" =>
        \A k \in 0..Len(text) :
            StartsToken(text, k) =>
                /\ StartedToken(text, k).line = LineOf(text, StartIndex(text, k))
                /\ StartedToken(text, k).column = ColumnOf(text, StartIndex(text, k))

\* what the lexer does record: the line is the number of newline characters
\* before the token
C21_LinesAreCounted ==
    pc = "lexed" =>
        \A k \in 0..Len(text) :
            StartsToken(text, k) =>
                StartedToken(text, k).line = LineOf(text, StartIndex(text, k))

\* a source was lexed in which a token starts a line after the first
C21_Witness ==
    /\ pc = "lexed"
    /\ \E k \in 0..Len(text) :
           /\ StartsToken(text, k)
           /\ LineOf(text, StartIndex(text, k)) > 0
           /\ ColumnOf(text, StartIndex(text, k)) = 0
           /\ StartedToken(text, k) \in {tokens[n] : n \in DOMAIN tokens}

\* --- the tables of the compiler ---

\* the definitions of the AST of one kind, by name
DefinitionsOf(root_node, kind) ==
    {root_node.statements[i] : i \in {n \in DOMAIN root_node.statements :
                                          root_node.statements[n].kind = kind}}

\* the table holds exactly these definitions, each under its name
HoldsExactly(table, definitions) ==
    /\ DOMAIN table = {definition.symbol.value : definition \in definitions}
    /\ \A definition \in definitions : table[definition.symbol.value] = definition

\* pass 1 starts from empty tables whatever the compiler held, and on an AST
\* that defines no name twice leaves exactly the definitions of the AST in them
RebuiltFromEmpty ==
    LET traversed == Compiler_traverse(
                         [mixin_table |-> mixin_table, alias_table |-> alias_table], root)
    IN  /\ traversed = Compiler_traverse(Compiler_init, root)
        /\ traversed.status = "ok" =>
               /\ HoldsExactly(traversed.mixin_table, DefinitionsOf(root, "MixinDefNode"))
               /\ HoldsExactly(traversed.alias_table, DefinitionsOf(root, "AliasDefNode"))

\* C22: every compile_css call rebuilds the mixin table and the alias table
\* from empty, so that after pass 1 they hold exactly the definitions of the
\* AST, and once the call has returned or failed the tables hold no entries.
C22_TablesRebuiltAndDiscarded ==
    pc = "compiler" =>
        /\ RebuiltFromEmpty
        /\ calls > 0 => mixin_table = EmptyTable /\ alias_table = EmptyTable

\* the part the code keeps: the rebuilding, and the tables a call leaves are
\* those of its pass 1
C22_TablesRebuilt ==
    pc = "compiler" =>
        /\ RebuiltFromEmpty
        /\ calls > 0 =>
               /\ mixin_table = Compiler_traverse(Compiler_init, root).mixin_table
               /\ alias_table = Compiler_traverse(Compiler_init, root).alias_table

\* compile_css has returned text for an AST that defines a mixin and an alias
C22_Witness ==
    /\ pc = "compiler"
    /\ calls > 0
    /\ \E minified \in BOOLEAN : last[minified].status = "ok"
    /\ DefinitionsOf(root, "MixinDefNode") # {}
    /\ DefinitionsOf(root, "AliasDefNode") # {}

\* --- the AST under compile_css ---

\* the style statements of the root that use a mixin the AST defines with
\* properties in it
PullingStyles(root_node) ==
    {style \in DefinitionsOf(root_node, "StyleNode") :
        /\ style.mixin_list # None
        /\ \E i \in DOMAIN style.mixin_list.identifiers :
               \E mixin \in DefinitionsOf(root_node, "MixinDefNode") :
                   /\ mixin.symbol.value = style.mixin_list.identifiers[i].value
                   /\ mixin.style_body_node.property_nodes # <<>>}

C23_FailedWitness ==
    /\ pc = "compiler"
    /\ \A minified \in BOOLEAN : last[minified].status = "error"
    /\ \E style \in DefinitionsOf(root, "StyleNode") : style.mixin_list # None

\* --- the enclosing selector groups ---

\* the style and every style nested in it reference the selector group of the
\* style right around them, the style itself referencing enclosing
RECURSIVE ReferencesEnclosing(_, _)
ReferencesEnclosing(style, enclosing) ==
    /\ style.selector_node.parent_selector_node = enclosing
    /\ \A i \in DOMAIN style.style_body_node.children_style_nodes :
           ReferencesEnclosing(style.style_body_node.children_style_nodes[i],
                               style.selector_node)

\* the number of references followed from a selector group to one with none
RECURSIVE ChainLength(_)
ChainLength(selector_node) ==
    IF selector_node.parent_selector_node = None THEN 0
    ELSE 1 + ChainLength(selector_node.parent_selector_node)

\* every selector group of the style and of the styles nested in it, depth styles
\* deep, is as many references away from a group with none as styles enclose it
RECURSIVE ChainsAsDeep(_, _)
ChainsAsDeep(style, depth) ==
    /\ ChainLength(style.selector_node) = depth
    /\ \A i \in DOMAIN style.style_body_node.children_style_nodes :
           ChainsAsDeep(style.style_body_node.children_style_nodes[i], depth + 1)

\* the styles directly inside the body of a mixin definition
StylesOfMixins(root_node) ==
    UNION {Range(mixin.style_body_node.children_style_nodes) :
               mixin \in DefinitionsOf(root_node, "MixinDefNode")}

\* C24: in the AST the parser returns, the selector group of every nested
\* style references exactly the selector group of the style right around it; the
\* selector groups of the styles at the top level, of the alias definitions and
\* of the styles directly inside a mixin body reference nothing; and the
\* references from any selector group lead to a group with no reference in as
\* many steps as styles enclose it.
C24_EnclosingReferences ==
    pc = "parsed" =>
        /\ \A style \in DefinitionsOf(root, "StyleNode") :
               ReferencesEnclosing(style, None) /\ ChainsAsDeep(style, 0)
        /\ \A style \in StylesOfMixins(root) :
               ReferencesEnclosing(style, None) /\ ChainsAsDeep(style, 0)
        /\ \A alias \in DefinitionsOf(root, "AliasDefNode") :
               alias.selector_node.parent_selector_node = None

\* an AST was returned with a style two styles deep at the top level and a
\* style one style deep in a mixin body
C24_Witness ==
    /\ pc = "parsed"
    /\ \E style \in DefinitionsOf(root, "StyleNode") :
           \E i \in DOMAIN style.style_body_node.children_style_nodes :
               style.style_body_node.children_style_nodes[i]
                   .style_body_node.children_style_nodes # <<>>
    /\ \E style \in StylesOfMixins(root) : style.style_body_node.children_style_nodes # <<>>

\* an AST was returned with an alias definition and a nested style
C24_AliasWitness ==
    /\ pc = "parsed"
    /\ DefinitionsOf(root, "AliasDefNode") # {}
    /\ \E style \in DefinitionsOf(root, "StyleNode") :
           style.style_body_node.children_style_nodes # <<>>

\* --- the order of the blocks in the two modes ---

\* the place of the first block of the text with these selectors (0: none)
FirstAt(blocks, selectors) ==
    IF \E i \in DOMAIN blocks : blocks[i].selectors = selectors
    THEN CHOOSE i \in DOMAIN blocks :
             /\ blocks[i].selectors = selectors
             /\ \A j \in 1..(i - 1) : blocks[j].selectors # selectors
    ELSE 0

\* the block of the first style comes before the block of the second in the
\* text of that mode
BlockBefore(css, chain, other_chain, minified) ==
    FirstAt(Blocks(css), DeclaredSelectors(chain, minified))
        < FirstAt(Blocks(css), DeclaredSelectors(other_chain, minified))

\* two emitted styles with different selectors, whose blocks are told apart
Distinguished(e, f) ==
    \A minified \in BOOLEAN :
        DeclaredSelectors(e.chain, minified) # DeclaredSelectors(f.chain, minified)

\* C25: the blocks of the emitted styles, told by their selectors, come in the
\* same relative order in the pretty and in the minified text of an AST, for the
\* statements of the root as for a style and the styles nested in it.
C25_SameBlockOrder ==
    (last[TRUE].status = "ok" /\ last[FALSE].status = "ok") =>
        \A e \in EmittedStyles(root), f \in EmittedStyles(root) :
            Distinguished(e, f) =>
                (BlockBefore(last[TRUE].value, e.chain, f.chain, TRUE)
                     <=> BlockBefore(last[FALSE].value, e.chain, f.chain, FALSE))

\* both modes have compiled a style with a nested style, and the blocks of the
\* two come in one order in the minified text and in the other in the pretty text
C25_Witness ==
    /\ last[TRUE].status = "ok"
    /\ last[FALSE].status = "ok"
    /\ \E e \in EmittedStyles(root), child \in EmittedStyles(root) :
           /\ IsChildChain(e.chain, child.chain)
           /\ Distinguished(e, child)
           /\ BlockBefore(last[TRUE].value, child.chain, e.chain, TRUE)
           /\ BlockBefore(last[FALSE].value, e.chain, child.chain, FALSE)

\* both modes have compiled two statements of the root whose blocks come in the
\* same order in both texts
C25_RootWitness ==
    /\ last[TRUE].status = "ok"
    /\ last[FALSE].status = "ok"
    /\ \E e \in EmittedStyles(root), f \in EmittedStyles(root) :
           /\ Len(e.chain) = 1
           /\ Len(f.chain) = 1
           /\ Distinguished(e, f)
           /\ BlockBefore(last[TRUE].value, e.chain, f.chain, TRUE)
           /\ BlockBefore(last[FALSE].value, e.chain, f.chain, FALSE)

\* --- a colon away from its property name ---

\* the lexer before each pass of the scanning loop, from this one on
RECURSIVE PassList(_)
PassList(self) ==
    IF self.failed \/ self.index >= Len(self.text) THEN <<self>>
    ELSE <<self>> \o PassList(Lexer_next_token_step(self))

\* the lexer is about to start a pass on a ':' that is not half of "::"
AtColon(before) ==
    /\ ~before.failed
    /\ current_char(before) = ":"
    /\ next_char(before) # ":"

\* that pass appends a CSS_PROPERTY_VALUE token after the SINGLE_COLON
ValueRuleFires(before) ==
    LET after == Lexer_next_token_step(before)
    IN  /\ ~after.failed
        /\ Len(after.tokens) = Len(before.tokens) + 2
        /\ after.tokens[Len(after.tokens)].type = "CSS_PROPERTY_VALUE"

\* white space, and nothing else, lies in the source between a property name and
\* the ':' the pass starts on: the index before the colon holds white space and
\* the source before that run of white space scans into tokens that end with
\* CSS_PROPERTY
IsSpacedColon(before) ==
    /\ AtColon(before)
    /\ \E j \in 0..(before.index - 1) :
           /\ \A n \in j..(before.index - 1) : isspace(Char(before.text, n))
           /\ ~isspace(Char(before.text, j - 1))
           /\ LET scanned == Lexer_scan(Lexer_init(SubSeq(before.text, 1, j), TRUE))
              IN  /\ ~scanned.failed
                  /\ Len(scanned.tokens) >= 2
                  /\ scanned.tokens[Len(scanned.tokens) - 1].type = "CSS_PROPERTY"

\* the place in the token list of the SINGLE_COLON that pass appends (0: none)
ColonPlace(before, toks) ==
    LET colon == Token("SINGLE_COLON", ":", before.line, before.column)
    IN  IF \E n \in DOMAIN toks : toks[n] = colon
        THEN CHOOSE n \in DOMAIN toks : toks[n] = colon
        ELSE 0

\* the declaration whose colon is at place n of the token list is parsed into a
\* failure: CSS_PROPERTY_VALUE was expected where the token after the colon is
FailsExpectingValue(toks, n) ==
    LET made == Parser_make_property_node([Parser_init(toks) EXCEPT !.index = n - 2])
    IN  /\ made.status = "error"
        /\ made.expected = {"CSS_PROPERTY_VALUE"}
        /\ made.got = toks[n + 1]

\* what the claim says of a colon with white space before it
SpacedColonIsNoValueColon(before, toks) ==
    /\ last_token(before).type = "SPACE"
    /\ before.tokens[Len(before.tokens) - 1].type = "CSS_PROPERTY"
    /\ Lexer_next_token_step(before) = Lexer_advance(Lexer_append(before, "SINGLE_COLON", ":"))
    /\ Lexer_next_token_step(before).index = before.index + 1
    /\ ColonPlace(before, toks) >= 2
    /\ toks[ColonPlace(before, toks) - 1].type = "CSS_PROPERTY"
    /\ toks[ColonPlace(before, toks) + 1].type # "CSS_PROPERTY_VALUE"
    /\ FailsExpectingValue(toks, ColonPlace(before, toks))

\* C26: the lexer reads a property value after a ':' only when the token it
\* made last, white space included, is CSS_PROPERTY.  When white space lies
\* between the property name and the colon, a SPACE token lies between the two
\* in the unfiltered tokens, the pass appends SINGLE_COLON alone and moves one
\* character on, so that the value text is scanned by the ordinary rules and no
\* CSS_PROPERTY_VALUE follows the colon; in the tokens handed to the parser the
\* colon follows the property name at once, no value follows it, parsing the
\* declaration fails expecting CSS_PROPERTY_VALUE, and the parser returns no AST.
C26_SpacedColon ==
    pc \notin {"source", "lex_error"} =>
        \A before \in Range(PassList(Lexer_init(text, TRUE))) :
            /\ AtColon(before) =>
                   (ValueRuleFires(before)
                        <=> last_token(before) # None /\ last_token(before).type = "CSS_PROPERTY")
            /\ IsSpacedColon(before) =>
                   /\ SpacedColonIsNoValueColon(before, tokens)
                   /\ pc \notin {"parsed", "compiler"}

\* the parser has failed on a style whose second declaration has white space
\* before its colon, the first having none
C26_Witness ==
    /\ pc = "parse_error"
    /\ Parser_parse(tokens).expected = {"CSS_PROPERTY_VALUE"}
    /\ \E before \in Range(PassList(Lexer_init(text, TRUE))) :
           /\ IsSpacedColon(before)
           /\ Parser_parse(tokens).got = tokens[ColonPlace(before, tokens) + 1]
           /\ \E earlier \in Range(PassList(Lexer_init(text, TRUE))) :
                  /\ earlier.index < before.index
                  /\ AtColon(earlier)
                  /\ ValueRuleFires(earlier)

\* --- the failures of compile_css ---

\* a single selector of a style nested in a style renders to the empty string
HasEmptyNestedSelector(root_node) ==
    \E e \in EmittedStyles(root_node) :
        /\ Len(e.chain) >= 2
        /\ \E i \in DOMAIN e.chain[Len(e.chain)] :
               SingleCss(e.chain[Len(e.chain)][i], TRUE) = ""

\* C27: on an AST the parser returned, compile_css in either mode returns text
\* or fails on a name defined twice (the ValueError of pass 1) or on a mixin that
\* is used and not defined (the KeyError of get_mixin); it fails for no other
\* reason, a nested style with a single selector that renders to the empty
\* string included.
C27_SemanticFailuresOnly ==
    \A minified \in BOOLEAN :
        Called(minified) =>
            \/ last[minified].status = "ok"
            \/ last[minified].error = "ValueError" /\ HasDuplicate(root)
            \/ /\ last[minified].error = "KeyError"
               /\ \E e \in EmittedStyles(root) : UsesUndefinedMixin(e.style, root)

\* the failures the code does have: those two and the IndexError of a nested
\* single selector that renders to the empty string
C27_FailuresOfTheCode ==
    \A minified \in BOOLEAN :
        Called(minified) =>
            \/ last[minified].status = "ok"
            \/ last[minified].error = "ValueError" /\ HasDuplicate(root)
            \/ /\ last[minified].error = "KeyError"
               /\ \E e \in EmittedStyles(root) : UsesUndefinedMixin(e.style, root)
            \/ last[minified].error = "IndexError" /\ HasEmptyNestedSelector(root)

\* both modes have been called on an AST with an empty single selector in a
\* nested style, no name defined twice and no undefined mixin in use
C27_Witness ==
    /\ \A minified \in BOOLEAN : Called(minified)
    /\ HasEmptyNestedSelector(root)
    /\ ~HasDuplicate(root)
    /\ \A e \in EmittedStyles(root) : ~UsesUndefinedMixin(e.style, root)

====
